---------------------------- MODULE Spec2Model ----------------------------
(***************************************************************************)
(* Model of the crop recommendation backend:                               *)
(*   backend/services/crop_service.py  (CropRecommendationService)         *)
(*   backend/main.py                   (the /api/recommend handler)        *)
(*                                                                         *)
(* Numbers.  Money is in whole rupees.  Yields are kept in tenths of a     *)
(* tonne (6.0 t -> 60), soil readings in tenths of their unit              *)
(* (ph 6.0 -> 60, N 40 kg/ha -> 400).  A float quotient (profit margin, a  *)
(* mean) is kept as an exact fraction [num, den] and compared by cross     *)
(* multiplication.                                                         *)
(***************************************************************************)
EXTENDS Integers, Sequences, FiniteSets, TLC

-----------------------------------------------------------------------------
(* Bounds of the model *)

\* number of classes of the label encoder that the model keeps
NumLabels == 6
\* classifier probabilities are multiples of 1/ProbSum and add up to 1
ProbSum == 3

-----------------------------------------------------------------------------
(* Generic helpers *)

Range(s) == {s[i] : i \in DOMAIN s}

Min2(a, b) == IF a <= b THEN a ELSE b

Max2(a, b) == IF a >= b THEN a ELSE b

SetMax(S) == CHOOSE x \in S : \A y \in S : y <= x

RECURSIVE SumSeq(_)
SumSeq(s) == IF s = << >> THEN 0 ELSE s[1] + SumSeq(Tail(s))

\* n / d rounded to the nearest integer, halves to the even one (n >= 0, d > 0)
RoundDiv(n, d) ==
    LET q == n \div d
        r == n % d
    IN  IF 2 * r < d THEN q
        ELSE IF 2 * r > d THEN q + 1
        ELSE IF q % 2 = 0 THEN q ELSE q + 1

RECURSIVE Gcd(_, _)
Gcd(a, b) == IF b = 0 THEN a ELSE Gcd(b, a % b)

Abs(n) == IF n < 0 THEN -n ELSE n

\* exact fractions n/d (d > 0), in lowest terms
Rat(n, d) ==
    LET g == Gcd(Abs(n), d) IN [num |-> n \div g, den |-> d \div g]

RatZero == Rat(0, 1)

RatLess(a, b) == a.num * b.den < b.num * a.den

RatEq(a, b) == a.num * b.den = b.num * a.den

-----------------------------------------------------------------------------
(* Economic reference store: create_enhanced_economic_dataset *)

CropNames ==
    << "rice", "maize", "chickpea", "kidneybeans", "pigeonpeas", "mothbeans",
       "mungbean", "blackgram", "lentil", "pomegranate", "banana", "mango",
       "grapes", "watermelon", "muskmelon", "apple", "orange", "papaya",
       "coconut", "cotton", "jute", "coffee" >>

Cost_of_Cultivation_per_Hectare ==
    << 32000, 22000, 18000, 20000, 21000, 17000, 18500, 19000, 17500, 60000,
       75000, 80000, 150000, 25000, 26000, 180000, 70000, 55000, 90000, 24500,
       23000, 120000 >>

\* tenths of a tonne
Avg_Yield_per_Hectare ==
    << 60, 55, 15, 18, 20, 12, 14, 13, 11, 150, 500, 120, 200,
       300, 280, 250, 220, 400, 100, 25, 22, 10 >>

Avg_Market_Price_per_Quintal ==
    << 2500, 2000, 5000, 4800, 4500, 4000, 5200, 5100, 4900, 8000, 1500,
       3000, 4000, 1200, 1500, 6000, 2500, 1800, 3500, 6000, 3000, 15000 >>

Crop_Type ==
    << "cereal", "cereal", "legume", "legume", "legume", "legume",
       "legume", "legume", "legume", "fruit", "fruit", "fruit",
       "fruit", "fruit", "fruit", "fruit", "fruit", "fruit",
       "fruit", "fiber", "fiber", "beverage" >>

Growing_Season ==
    << "Kharif", "Kharif", "Rabi", "Kharif", "Kharif", "Kharif",
       "Kharif", "Kharif", "Rabi", "Year-round", "Year-round", "Year-round",
       "Year-round", "Summer", "Summer", "Year-round", "Year-round", "Year-round",
       "Year-round", "Kharif", "Kharif", "Year-round" >>

Water_Requirement ==
    << "High", "Medium", "Low", "Medium", "Low", "Low",
       "Low", "Low", "Low", "Medium", "High", "Medium",
       "Medium", "Medium", "Medium", "Medium", "Medium", "Medium",
       "High", "Medium", "High", "High" >>

IndexOfCrop(c) == CHOOSE i \in DOMAIN CropNames : CropNames[i] = c

\* pd.DataFrame(data).set_index('Crop'): a row per crop name
create_enhanced_economic_dataset ==
    [ c \in Range(CropNames) |->
        LET i == IndexOfCrop(c) IN
        [ Cost_of_Cultivation_per_Hectare |-> Cost_of_Cultivation_per_Hectare[i],
          Avg_Yield_per_Hectare           |-> Avg_Yield_per_Hectare[i],
          Avg_Market_Price_per_Quintal    |-> Avg_Market_Price_per_Quintal[i],
          Crop_Type                       |-> Crop_Type[i],
          Growing_Season                  |-> Growing_Season[i],
          Water_Requirement               |-> Water_Requirement[i] ] ]

-----------------------------------------------------------------------------
(* The classifier collaborator: label_encoder.pkl and model.predict_proba *)

\* LabelEncoder.classes_ of the 22 training labels: sorted
AllClasses ==
    << "apple", "banana", "blackgram", "chickpea", "coconut", "coffee",
       "cotton", "grapes", "jute", "kidneybeans", "lentil", "maize", "mango",
       "mothbeans", "mungbean", "muskmelon", "orange", "papaya", "pigeonpeas",
       "pomegranate", "rice", "watermelon" >>

\* the label set the model works with: the last NumLabels classes
classes_ == SubSeq(AllClasses, Len(AllClasses) - NumLabels + 1, Len(AllClasses))

\* label_encoder.pkl fitted on data that names a crop the store does not hold
\* ("wheat" in the place of "watermelon": classes_ stays sorted)
UnknownLabelClasses == [classes_ EXCEPT ![NumLabels] = "wheat"]

LabelSets == { classes_, UnknownLabelClasses }

\* the vectors of n naturals that add up to total
RECURSIVE VectorsOfSum(_, _)
VectorsOfSum(n, total) ==
    IF n = 0 THEN (IF total = 0 THEN { << >> } ELSE {})
    ELSE UNION { { <<k>> \o v : v \in VectorsOfSum(n - 1, total - k) } : k \in 0..total }

\* probability vectors of length n, in units of 1/ProbSum
Distributions(n) == VectorsOfSum(n, ProbSum)

\* what predict_proba may return: a vector over the label set, or one whose
\* length does not match it (a model pickled with another label set)
ProbabilityVectors ==
    Distributions(NumLabels - 1) \cup Distributions(NumLabels)
        \cup Distributions(NumLabels + 1)

Budgets == {20000, 30000, 60000, 100000}

-----------------------------------------------------------------------------
(* get_crop_recommendations *)

TopN == 5

\* np.argsort(probabilities)[0][-5:][::-1].  argsort's default kind is
\* quicksort, which is not stable: equal probabilities may come out in any
\* order.  The set of index sequences the expression can yield: at every
\* position any index of maximal probability among those not yet taken.
RECURSIVE ArgsortTopUnstable(_, _, _)
ArgsortTopUnstable(p, remaining, k) ==
    IF k = 0 \/ remaining = {} THEN { << >> }
    ELSE LET m == SetMax({p[j] : j \in remaining})
         IN  UNION { { <<i>> \o s : s \in ArgsortTopUnstable(p, remaining \ {i}, k - 1) }
                     : i \in {j \in remaining : p[j] = m} }

Reverse(s) == [i \in DOMAIN s |-> s[Len(s) + 1 - i]]

\* the [::-1] left out: the candidates in ascending order
TopIndices_NotReversed(p) ==
    { Reverse(s) : s \in ArgsortTopUnstable(p, DOMAIN p, TopN) }

TopIndices(p) == ArgsortTopUnstable(p, DOMAIN p, TopN)

\* label_encoder.inverse_transform raises ValueError on an unseen index
InverseTransformRaises(classes, top_indices) ==
    \E i \in DOMAIN top_indices : top_indices[i] \notin DOMAIN classes

inverse_transform(classes, top_indices) ==
    [i \in DOMAIN top_indices |-> classes[top_indices[i]]]

\* f"{prob:.2%}": the percentage with two decimals, in hundredths of a percent
FormatPercent(prob) == RoundDiv(prob * 10000, ProbSum)

\* the price per quintal taken as a price per tonne
Revenue_PerTonne(crop_data) ==
    (crop_data.Avg_Yield_per_Hectare * crop_data.Avg_Market_Price_per_Quintal) \div 10

Revenue(crop_data) ==
    \* yield_val * price * 10, the yield being kept in tenths of a tonne
    (crop_data.Avg_Yield_per_Hectare * crop_data.Avg_Market_Price_per_Quintal * 10) \div 10

ProfitMargin(profit, revenue) ==
    IF revenue > 0 THEN Rat(profit * 100, revenue) ELSE RatZero

\* a crop that costs exactly the budget taken as over budget
Status_StrictBudget(cost, budget_) ==
    IF cost < budget_ THEN [name |-> "Recommended", over |-> 0]
    ELSE [name |-> "Over Budget", over |-> cost - budget_]

\* the overrun computed the wrong way round
Status_OverrunSign(cost, budget_) ==
    IF cost <= budget_ THEN [name |-> "Recommended", over |-> 0]
    ELSE [name |-> "Over Budget", over |-> budget_ - cost]

Status(cost, budget_) ==
    IF cost <= budget_ THEN [name |-> "Recommended", over |-> 0]
    ELSE [name |-> "Over Budget", over |-> cost - budget_]

NotAvailable == [available |-> FALSE, value |-> 0]

Recommendation(df, crop, prob, budget_) ==
    LET crop_data == df[crop]
        cost      == crop_data.Cost_of_Cultivation_per_Hectare
        revenue   == Revenue(crop_data)
        profit    == revenue - cost
    IN  [ crop              |-> crop,
          agronomic_score   |-> FormatPercent(prob),
          estimated_cost    |-> cost,
          estimated_profit  |-> IF cost <= budget_
                                THEN [available |-> TRUE, value |-> profit]
                                ELSE NotAvailable,
          profit_margin     |-> IF cost <= budget_
                                THEN ProfitMargin(profit, revenue)
                                ELSE RatZero,
          status            |-> Status(cost, budget_),
          growing_season    |-> crop_data.Growing_Season,
          water_requirement |-> crop_data.Water_Requirement ]

\* the loop over zip(top_crops, top_probs): crops missing from the store are skipped
RECURSIVE BuildRecommendations(_, _, _, _)
BuildRecommendations(df, crops, probs, budget_) ==
    IF crops = << >> THEN << >>
    ELSE LET rest == BuildRecommendations(df, Tail(crops), Tail(probs), budget_)
         IN  IF Head(crops) \in DOMAIN df
             THEN <<Recommendation(df, Head(crops), Head(probs), budget_)>> \o rest
             ELSE rest

IsRecommended(r) == r.status.name = "Recommended"

IsNotRecommended(r) == r.status.name # "Recommended"

\* list.sort(key=profit_margin, reverse=True): stable, descending
RECURSIVE InsertByMargin(_, _)
InsertByMargin(sorted, r) ==
    IF sorted = << >> THEN <<r>>
    ELSE IF RatLess(Head(sorted).profit_margin, r.profit_margin)
         THEN <<r>> \o sorted
         ELSE <<Head(sorted)>> \o InsertByMargin(Tail(sorted), r)

RECURSIVE SortByMarginDesc(_)
SortByMarginDesc(s) ==
    IF s = << >> THEN << >>
    ELSE InsertByMargin(SortByMarginDesc(SubSeq(s, 1, Len(s) - 1)), s[Len(s)])

\* the sort left out
RankRecommendations_Unsorted(recs) ==
    SelectSeq(recs, IsRecommended) \o SelectSeq(recs, IsNotRecommended)

RankRecommendations(recs) ==
    SortByMarginDesc(SelectSeq(recs, IsRecommended))
        \o SelectSeq(recs, IsNotRecommended)

\* soil_params.get(key, default)
RECURSIVE SoilGet(_, _, _)
SoilGet(soil, key, default) ==
    IF soil = << >> THEN default
    ELSE IF Head(soil).param = key THEN Head(soil).value
    ELSE SoilGet(Tail(soil), key, default)

expected_columns == << "N", "P", "K", "temperature", "humidity", "ph", "rainfall" >>

\* the row given to the scaler and the classifier:
\* {col: soil_params.get(col, 0) for col in expected_columns}
InputRow(soil) ==
    [i \in DOMAIN expected_columns |-> SoilGet(soil, expected_columns[i], 0)]

\* a row of the store assigned to by an operation
ReadStore_RowAssigned(df) ==
    [df EXCEPT !["rice"].Cost_of_Cultivation_per_Hectare = 0]

\* self.economic_df after an engine operation: the operations look rows up
\* (crop in economic_df.index, economic_df.loc[crop]) and assign nothing to
\* the store or to a row taken from it
ReadStore(df) == df

\* the body of get_crop_recommendations for one outcome top_indices of the
\* argsort; a failure inside the try block is caught and [] returned
get_crop_recommendations(df, loaded, classes, probs, top_indices, soil, budget_) ==
    IF ~loaded \/ InverseTransformRaises(classes, top_indices)
    THEN [ input_df |-> IF loaded THEN InputRow(soil) ELSE << >>,
           top_crops |-> << >>, top_probs |-> << >>, recommendations |-> << >>,
           returned |-> << >>, failed |-> TRUE ]
    ELSE LET crops == inverse_transform(classes, top_indices)
             tprobs == [i \in DOMAIN top_indices |-> probs[top_indices[i]]]
             recs == BuildRecommendations(df, crops, tprobs, budget_)
         IN  [ input_df |-> InputRow(soil),
               top_crops |-> crops, top_probs |-> tprobs, recommendations |-> recs,
               returned |-> RankRecommendations(recs), failed |-> FALSE ]

-----------------------------------------------------------------------------
(* generate_rotation_plan *)

rotation_sequences ==
    [ cereal   |-> << "legume", "vegetable", "cereal" >>,
      legume   |-> << "cereal", "fruit", "legume" >>,
      fruit    |-> << "legume", "cereal", "fruit" >>,
      fiber    |-> << "legume", "cereal", "fiber" >>,
      beverage |-> << "legume", "vegetable", "beverage" >> ]

DefaultSequence == << "legume", "cereal", "fruit" >>

crop_by_type ==
    [ cereal    |-> << "rice", "maize" >>,
      legume    |-> << "chickpea", "lentil", "mungbean", "blackgram" >>,
      vegetable |-> << "watermelon", "muskmelon", "papaya" >>,
      fruit     |-> << "banana", "mango", "grapes", "orange" >>,
      fiber     |-> << "cotton", "jute" >>,
      beverage  |-> << "coffee" >> ]

benefits_map ==
    [ cereal    |-> << "Provides staple grain", "Good market demand", "Moderate water requirement" >>,
      legume    |-> << "Nitrogen fixation", "Soil fertility improvement", "Low water requirement" >>,
      fruit     |-> << "High market value", "Long-term investment", "Orchard development" >>,
      vegetable |-> << "Quick returns", "High nutrition value", "Market flexibility" >>,
      fiber     |-> << "Industrial demand", "Good export potential", "Drought tolerance" >>,
      beverage  |-> << "Premium pricing", "Export opportunity", "Sustainable farming" >> ]

\* dict.get(key, default)
DictGet(d, key, default) == IF key \in DOMAIN d THEN d[key] ELSE default

\* (yield_val * price * 10) - cost
CropProfit(crop_data) == Revenue(crop_data) - crop_data.Cost_of_Cultivation_per_Hectare

\* the loop over available_crops, from best_crop = available_crops[0], best_profit = 0
RECURSIVE BestCropLoop(_, _, _, _)
BestCropLoop(df, crops, best_crop, best_profit) ==
    IF crops = << >> THEN best_crop
    ELSE LET crop == Head(crops)
         IN  IF crop \in DOMAIN df /\ CropProfit(df[crop]) > best_profit
             THEN BestCropLoop(df, Tail(crops), crop, CropProfit(df[crop]))
             ELSE BestCropLoop(df, Tail(crops), best_crop, best_profit)

\* the first year planned like the others: the most profitable crop of the type
SelectedCrop_NoFirstYear(df, primary, year, next_type) ==
    LET available_crops == DictGet(crop_by_type, next_type, << "rice" >>)
    IN  BestCropLoop(df, available_crops, available_crops[1], 0)

\* the default never replaced: the first candidate of the type
SelectedCrop_FirstOfType(df, primary, year, next_type) ==
    IF year = 1 THEN primary
    ELSE DictGet(crop_by_type, next_type, << "rice" >>)[1]

SelectedCrop(df, primary, year, next_type) ==
    IF year = 1 THEN primary
    ELSE LET available_crops == DictGet(crop_by_type, next_type, << "rice" >>)
         IN  BestCropLoop(df, available_crops, available_crops[1], 0)

Season(year) == IF year % 2 = 1 THEN "Kharif" ELSE "Rabi"

EstimatedProfit(df, selected_crop) ==
    Max2(0, IF selected_crop \in DOMAIN df THEN CropProfit(df[selected_crop]) ELSE 0)

RotationStep(df, primary, crop_type, year, next_type) ==
    LET selected_crop == SelectedCrop(df, primary, year, next_type)
        selected_type == IF year = 1 THEN crop_type ELSE next_type
    IN  [ year             |-> year,
          season           |-> Season(year),
          recommended_crop |-> selected_crop,
          crop_type        |-> selected_type,
          benefits         |-> DictGet(benefits_map, selected_type, << "Crop diversification" >>),
          estimated_profit |-> EstimatedProfit(df, selected_crop) ]

\* only the empty name refused: a crop the store lacks planned as the default crop
generate_rotation_plan_DefaultCrop(df, primary, climate) ==
    IF primary = "" THEN << >>
    ELSE LET known     == IF primary \in DOMAIN df THEN primary ELSE "rice"
             crop_type == df[known].Crop_Type
             sequence  == DictGet(rotation_sequences, crop_type, DefaultSequence)
         IN  [ year \in DOMAIN sequence |->
                 RotationStep(df, known, crop_type, year, sequence[year]) ]

generate_rotation_plan(df, primary, climate) ==
    IF primary = "" \/ primary \notin DOMAIN df THEN << >>
    ELSE LET crop_type == df[primary].Crop_Type
             sequence  == DictGet(rotation_sequences, crop_type, DefaultSequence)
         IN  [ year \in DOMAIN sequence |->
                 RotationStep(df, primary, crop_type, year, sequence[year]) ]

\* crop names a caller may pass: every stored crop, the empty name, a crop the
\* store does not hold, and a stored crop in another letter case
PrimaryCropInputs == Range(CropNames) \cup { "", "wheat", "Rice" }

Climates == { "temperate", "tropical" }

-----------------------------------------------------------------------------
(* analyze_soil_treatment.  Readings are in tenths of their unit. *)

MaxSoilParams == 2

optimal_ranges ==
    [ N           |-> [min |-> 400, max |-> 800, unit |-> "kg/ha"],
      P           |-> [min |-> 300, max |-> 600, unit |-> "kg/ha"],
      K           |-> [min |-> 400, max |-> 800, unit |-> "kg/ha"],
      ph          |-> [min |-> 60,  max |-> 75,  unit |-> "pH"],
      humidity    |-> [min |-> 400, max |-> 700, unit |-> "%"],
      temperature |-> [min |-> 200, max |-> 300, unit |-> "°C"] ]

treatment_suggestions ==
    [ N  |-> [ low  |-> [treatment |-> "Apply nitrogen-rich fertilizer",
                         fertilizer |-> "Urea (46-0-0) at 100-150 kg/ha"],
               high |-> [treatment |-> "Reduce nitrogen application",
                         fertilizer |-> "Skip nitrogen fertilizer this season"] ],
      P  |-> [ low  |-> [treatment |-> "Apply phosphorus fertilizer",
                         fertilizer |-> "DAP (18-46-0) at 100-125 kg/ha"],
               high |-> [treatment |-> "Reduce phosphorus application",
                         fertilizer |-> "Use low-P fertilizers"] ],
      K  |-> [ low  |-> [treatment |-> "Apply potassium fertilizer",
                         fertilizer |-> "MOP (0-0-60) at 80-100 kg/ha"],
               high |-> [treatment |-> "Reduce potassium application",
                         fertilizer |-> "Use balanced NPK fertilizers"] ],
      ph |-> [ low  |-> [treatment |-> "Apply lime to increase pH",
                         fertilizer |-> "Agricultural lime at 500-1000 kg/ha"],
               high |-> [treatment |-> "Apply sulfur to decrease pH",
                         fertilizer |-> "Elemental sulfur at 100-200 kg/ha"] ] ]

\* str.upper() on the parameter names
Upper(param) ==
    CASE param = "N" -> "N"
      [] param = "P" -> "P"
      [] param = "K" -> "K"
      [] param = "ph" -> "PH"
      [] param = "humidity" -> "HUMIDITY"
      [] param = "temperature" -> "TEMPERATURE"
      [] param = "rainfall" -> "RAINFALL"
      [] OTHER -> param

Treatment(param, value, level) ==
    LET optimal == optimal_ranges[param]
        suggestion == treatment_suggestions[param][level]
    IN  [ parameter                 |-> Upper(param),
          current_value             |-> value,
          optimal_range             |-> optimal,
          treatment_suggestion      |-> suggestion.treatment,
          fertilizer_recommendation |-> suggestion.fertilizer ]

NoError == "none"

\* the loop over soil_params.items(): a dict is a sequence of [param, value] in
\* insertion order.  treatment_suggestions[param] is a plain subscript: a
\* parameter without suggestions raises KeyError and the call returns nothing.
RECURSIVE TreatmentLoop(_, _)
TreatmentLoop(items, treatments) ==
    IF items = << >> THEN [raised |-> NoError, returned |-> treatments]
    ELSE LET param == Head(items).param
             value == Head(items).value
         IN  IF param \notin DOMAIN optimal_ranges
             THEN TreatmentLoop(Tail(items), treatments)
             ELSE IF value < optimal_ranges[param].min
             THEN IF param \notin DOMAIN treatment_suggestions
                  THEN [raised |-> "KeyError", returned |-> << >>]
                  ELSE TreatmentLoop(Tail(items),
                                     Append(treatments, Treatment(param, value, "low")))
             ELSE IF value > optimal_ranges[param].max
                     /\ param \in {"N", "P", "K", "ph"}
             THEN TreatmentLoop(Tail(items),
                                Append(treatments, Treatment(param, value, "high")))
             ELSE TreatmentLoop(Tail(items), treatments)

analyze_soil_treatment(soil) == TreatmentLoop(soil, << >>)

SoilParamNames == { "N", "P", "K", "temperature", "humidity", "ph", "rainfall" }

\* readings tried for a parameter: below its range, on both ends of it, above it
ReadingsOf(param) ==
    IF param \in DOMAIN optimal_ranges
    THEN LET r == optimal_ranges[param]
         IN  { r.min - 10, r.min, r.max, r.max + 10 }
    ELSE { 400 }

SoilParamsOf(items) == { items[i].param : i \in DOMAIN items }

\* dicts of at most n parameters, in every insertion order
RECURSIVE SoilDictsOfLen(_)
SoilDictsOfLen(n) ==
    IF n = 0 THEN { << >> }
    ELSE UNION { UNION { { Append(d, [param |-> q, value |-> v]) : v \in ReadingsOf(q) }
                         : q \in SoilParamNames \ SoilParamsOf(d) }
                 : d \in SoilDictsOfLen(n - 1) }

SoilDicts(n) == UNION { SoilDictsOfLen(k) : k \in 0..n }

\* SoilParameters(...).dict() of the end-to-end example:
\* N 20, P 25, K 35, temperature 22, humidity 45, ph 5.0, rainfall 40
ExampleSoil ==
    << [param |-> "N", value |-> 200], [param |-> "P", value |-> 250],
       [param |-> "K", value |-> 350], [param |-> "temperature", value |-> 220],
       [param |-> "humidity", value |-> 450], [param |-> "ph", value |-> 50],
       [param |-> "rainfall", value |-> 400] >>

SoilInputs == SoilDicts(MaxSoilParams) \cup { ExampleSoil }

-----------------------------------------------------------------------------
(* generate_crop_advisory.  Temperatures in degrees, rainfall in mm, humidity *)
(* in percent.                                                              *)

MaxDays == 3

\* the slice [:n] left out: every entry read
Window_WholeForecast(forecast, n, key) ==
    [i \in 1..Len(forecast) |-> forecast[i][key]]

\* w[key] for w in weather_forecast[:n]
Window(forecast, n, key) ==
    [i \in 1..Min2(n, Len(forecast)) |-> forecast[i][key]]

\* w[key] raises KeyError for an entry of the window that lacks the key
WindowRaises(forecast, n, key) ==
    \E i \in 1..Min2(n, Len(forecast)) : key \notin DOMAIN forecast[i]

\* the three comprehensions at the head of generate_crop_advisory
AdvisoryRaises(forecast) ==
    \/ WindowRaises(forecast, 3, "temperature_max")
    \/ WindowRaises(forecast, 7, "rainfall")
    \/ WindowRaises(forecast, 3, "humidity")

\* np.mean: the sum over the count, nan (den = 0) for an empty list
Mean(values) ==
    IF values = << >> THEN [num |-> 0, den |-> 0]
    ELSE [num |-> SumSeq(values), den |-> Len(values)]

\* comparisons of a mean with a number; every comparison with nan is false
MeanGt(m, x) == m.den > 0 /\ m.num > x * m.den

MeanLt(m, x) == m.den > 0 /\ m.num < x * m.den

MeanGe(m, x) == m.den > 0 /\ m.num >= x * m.den

MeanLe(m, x) == m.den > 0 /\ m.num <= x * m.den

None == "None"

HeatAlert == "High temperature warning - Consider heat-resistant crops"

ColdAlert == "Low temperature warning - Protect crops from cold"

DrainageAlert == "Heavy rainfall expected - Ensure proper drainage"

IrrigationAlert == "Low rainfall forecast - Plan irrigation"

\* the rainfall rules tried before the temperature rules
WeatherAlert_RainfallFirst(avg_temp, total_rainfall) ==
    IF total_rainfall > 100 THEN DrainageAlert
    ELSE IF total_rainfall < 10 THEN IrrigationAlert
    ELSE IF MeanGt(avg_temp, 35) THEN HeatAlert
    ELSE IF MeanLt(avg_temp, 15) THEN ColdAlert
    ELSE None

WeatherAlert(avg_temp, total_rainfall) ==
    IF MeanGt(avg_temp, 35) THEN HeatAlert
    ELSE IF MeanLt(avg_temp, 15) THEN ColdAlert
    ELSE IF total_rainfall > 100 THEN DrainageAlert
    ELSE IF total_rainfall < 10 THEN IrrigationAlert
    ELSE None

\* the ranges of the planting rule taken without their ends
PlantingRecommendation_OpenRanges(avg_temp, total_rainfall) ==
    IF MeanGt(avg_temp, 20) /\ MeanLt(avg_temp, 30)
          /\ 20 < total_rainfall /\ total_rainfall < 60
    THEN "Excellent conditions for planting"
    ELSE IF MeanGt(avg_temp, 30) THEN "Consider drought-resistant varieties"
    ELSE "Monitor weather before planting"

PlantingRecommendation(avg_temp, total_rainfall) ==
    IF MeanGe(avg_temp, 20) /\ MeanLe(avg_temp, 30)
          /\ 20 <= total_rainfall /\ total_rainfall <= 60
    THEN "Excellent conditions for planting"
    ELSE IF MeanGt(avg_temp, 30) THEN "Consider drought-resistant varieties"
    ELSE "Monitor weather before planting"

IrrigationAdvice(total_rainfall) ==
    IF total_rainfall < 20
    THEN "Increase irrigation frequency - weekly watering recommended"
    ELSE IF total_rainfall > 80 THEN "Reduce irrigation - risk of waterlogging"
    ELSE "Normal irrigation schedule - bi-weekly watering"

PestWarning(avg_humidity, avg_temp) ==
    IF MeanGt(avg_humidity, 70) /\ MeanGt(avg_temp, 25)
    THEN "High risk of fungal diseases - apply preventive fungicides"
    ELSE IF MeanLt(avg_humidity, 40) THEN "Watch for spider mites - monitor regularly"
    ELSE None

\* the advisory of a forecast whose entries hold the keys read; an advisory key
\* that is never set is None here, as in the CropAdvisory schema
generate_crop_advisory(forecast) ==
    LET avg_temp       == Mean(Window(forecast, 3, "temperature_max"))
        total_rainfall == SumSeq(Window(forecast, 7, "rainfall"))
        avg_humidity   == Mean(Window(forecast, 3, "humidity"))
    IN  [ weather_alert           |-> WeatherAlert(avg_temp, total_rainfall),
          planting_recommendation |-> PlantingRecommendation(avg_temp, total_rainfall),
          irrigation_advice       |-> IrrigationAdvice(total_rainfall),
          pest_warning            |-> PestWarning(avg_humidity, avg_temp),
          harvest_timing          |->
              "Monitor crop maturity - harvest during dry weather for better quality" ]

DayRecords ==
    [ temperature_max : {10, 40}, rainfall : {0, 15, 45}, humidity : {30, 75} ]

RECURSIVE ForecastsOfLen(_)
ForecastsOfLen(n) ==
    IF n = 0 THEN { << >> }
    ELSE { Append(f, d) : f \in ForecastsOfLen(n - 1), d \in DayRecords }

Forecasts(n) == UNION { ForecastsOfLen(k) : k \in 0..n }

\* forecasts longer than the longest window read
LongDays == 8

\* a cold dry day and a hot wet one
LongDayRecords ==
    { [ temperature_max |-> 10, rainfall |-> 0, humidity |-> 30 ],
      [ temperature_max |-> 40, rainfall |-> 15, humidity |-> 75 ] }

RECURSIVE LongForecastsOfLen(_)
LongForecastsOfLen(n) ==
    IF n = 0 THEN { << >> }
    ELSE { Append(f, d) : f \in LongForecastsOfLen(n - 1), d \in LongDayRecords }

LongForecasts == UNION { LongForecastsOfLen(k) : k \in 0..LongDays }

\* an entry that omits humidity
SparseDayRecords == [ temperature_max : {10, 40}, rainfall : {0, 45} ]

\* forecasts of at most n entries, any of which may omit humidity
RECURSIVE SparseForecastsOfLen(_)
SparseForecastsOfLen(n) ==
    IF n = 0 THEN { << >> }
    ELSE { Append(f, d) : f \in SparseForecastsOfLen(n - 1),
                          d \in SparseDayRecords \cup
                                   [ temperature_max : {10, 40}, rainfall : {0, 45},
                                     humidity : {75} ] }

SparseForecasts(n) == UNION { SparseForecastsOfLen(k) : k \in 0..n }

NoAdvisory == [ weather_alert |-> None, planting_recommendation |-> None,
                irrigation_advice |-> None, pest_warning |-> None,
                harvest_timing |-> None ]

-----------------------------------------------------------------------------
(* The three fetching services.  Of a forecast entry the fields read by the  *)
(* engine are kept (day i of the code is day i + 1 here); coordinates are in *)
(* thousandths of a degree.                                                  *)

\* what client.get, raise_for_status or response.json raised
FetchError == [ raised |-> "Exception" ]

_get_fallback_weather(days) ==
    [ i \in 1..days |->
        [ temperature_max |-> 28 + ((i - 1) % 3),
          rainfall        |-> IF (i - 1) % 3 = 0 THEN 2 ELSE 0,
          humidity        |-> 65 ] ]

\* the "daily" object of an Open-Meteo reply for n days; an absent
\* relative_humidity_2m is the empty list here
DailyData(n, temperature, precipitation, humidities) ==
    [ time                 |-> n,
      temperature_2m_max   |-> [i \in 1..n |-> temperature],
      precipitation_sum    |-> [i \in 1..Max2(n - precipitation.missing, 0) |->
                                    precipitation.value],
      relative_humidity_2m |-> humidities ]

\* daily_data[...][i] raises inside the try block when a list is too short
ResponseRaises(response) ==
    \/ response = FetchError
    \/ Len(response.temperature_2m_max) < response.time
    \/ Len(response.precipitation_sum) < response.time

\* WeatherService.get_weather_forecast for one outcome of the request
get_weather_forecast(response, days) ==
    IF ResponseRaises(response) THEN _get_fallback_weather(days)
    ELSE [ i \in 1..response.time |->
             [ temperature_max |-> response.temperature_2m_max[i],
               rainfall        |-> response.precipitation_sum[i],
               humidity        |-> IF response.relative_humidity_2m # << >>
                                   THEN response.relative_humidity_2m[1]
                                   ELSE 70 ] ]

\* replies the weather request may get for a forecast of n days: complete,
\* without humidity, with a list one short, or none
WeatherResponses(n) ==
    { DailyData(n, 31, [value |-> 12, missing |-> 0], << 80, 60 >>),
      DailyData(n, 12, [value |-> 0, missing |-> 0], << >>),
      DailyData(n, 31, [value |-> 12, missing |-> 1], << 80 >>),
      FetchError }

\* f"{x:.2f}" of a coordinate, in hundredths of a degree
Round2(x) == IF x >= 0 THEN RoundDiv(x, 10) ELSE -RoundDiv(-x, 10)

\* SoilGridsService.get_soil_data for one outcome of the request.  The engine
\* never reads the soil record; it is kept as its origin and its location.
get_soil_data(response, latitude, longitude) ==
    IF response = FetchError
    THEN [ origin |-> "_get_location_based_fallback",
           seed   |-> << Round2(latitude), Round2(longitude) >> ]
    ELSE [ origin |-> "SoilGrids", seed |-> << latitude, longitude >> ]

\* GeolocationService.get_location_info for one outcome of the request
get_location_info(response, latitude, longitude) ==
    IF response = FetchError
    THEN [ display_name |-> << "Location", Round2(latitude), Round2(longitude) >>,
           city         |-> "Unknown City" ]
    ELSE LET address == response.address
              city    == DictGet(address, "city", None)
              town    == DictGet(address, "town", None)
         IN  [ display_name |-> DictGet(response, "display_name", "Unknown Location"),
               city         |-> IF city # None THEN city
                                ELSE IF town # None THEN town
                                ELSE DictGet(address, "village", "Unknown City") ]

SoilResponses == { [properties |-> "clay, sand, silt, ocd, phh2o"], FetchError }

LocationResponses ==
    { [display_name |-> "Nagpur, Maharashtra", address |-> [city |-> "Nagpur"]],
      [address |-> [town |-> "Ramtek"]],
      FetchError }

\* the days a caller asks for: /api/soil-weather-data 1, the default 7
WeatherDays == { 1, 7 }

\* calls of get_weather_forecast followed in one behaviour
MaxCalls == 2

\* request locations: two that round to the same hundredths, one far north
Locations ==
    { [latitude |-> 21146, longitude |-> 79088],
      [latitude |-> 21149, longitude |-> 79091],
      [latitude |-> 64001, longitude |-> 79088],
      [latitude |-> -21146, longitude |-> -79088] }

-----------------------------------------------------------------------------
(* get_comprehensive_recommendation: the /api/recommend handler.  The       *)
(* operator is the handler from the point where the three fetches have       *)
(* resolved.  The market analysis and the pass-through fields of the         *)
(* response are left out.                                                    *)

\* the coroutines handed to asyncio.gather, in its argument order
GatherOrder == << "weather", "soil", "location" >>

\* one fetch resuming before the others are done
GatherDone_FirstCompleted(tasks) == \E t \in DOMAIN tasks : tasks[t] = "done"

\* await asyncio.gather(...) resumes the handler when every task is done
GatherDone(tasks) == \A t \in DOMAIN tasks : tasks[t] = "done"

\* the last entry of the list taken in place of the first
PrimaryCrop_LastRanked(recs) == IF recs # << >> THEN recs[Len(recs)].crop ELSE "rice"

\* crop_recommendations[0]['crop'] if crop_recommendations else 'rice'
PrimaryCrop(recs) == IF recs # << >> THEN recs[1].crop ELSE "rice"

get_comprehensive_recommendation(df, loaded, classes, probs, top_indices, budget_, soil, weather_data) ==
    LET ranking    == get_crop_recommendations(df, loaded, classes, probs, top_indices,
                                               soil, budget_)
        treatments == analyze_soil_treatment(soil)
        primary    == PrimaryCrop(ranking.returned)
    IN  IF treatments.raised # NoError \/ AdvisoryRaises(weather_data)
        THEN \* except Exception: raise HTTPException(status_code=500, ...)
             [ ranking |-> ranking, soil_treatments |-> << >>, primary_crop |-> "",
               rotation_plan |-> << >>, crop_advisory |-> NoAdvisory,
               raised |-> "HTTPException", status_code |-> 500 ]
        ELSE [ ranking |-> ranking, soil_treatments |-> treatments.returned,
               primary_crop |-> primary,
               rotation_plan |-> generate_rotation_plan(df, primary, "temperate"),
               crop_advisory |-> generate_crop_advisory(weather_data),
               raised |-> NoError, status_code |-> 200 ]

\* the example soil with the humidity reading at 35 %
DrySoil == [ExampleSoil EXCEPT ![5] = [param |-> "humidity", value |-> 350]]

FlowSoils == { ExampleSoil, DrySoil }

FlowBudgets == { 20000, 30000 }

FlowForecasts == { _get_fallback_weather(7) }

-----------------------------------------------------------------------------
(* analyze_crop: the /api/analyze-crop handler.  Scores are in hundredths of *)
(* a percent, soil readings in tenths of their unit.                         *)

\* the budget analyze_crop looks the crop up with
LookupBudget == 100000

\* str.lower() on the crop and parameter names that occur
Lower(name) ==
    CASE name = "Apple"  -> "apple"
      [] name = "COFFEE" -> "coffee"
      [] name = "Rice"   -> "rice"
      [] name = "N"  -> "n"
      [] name = "P"  -> "p"
      [] name = "K"  -> "k"
      [] name = "PH" -> "ph"
      [] name = "TEMPERATURE" -> "temperature"
      [] name = "HUMIDITY"    -> "humidity"
      [] name = "RAINFALL"    -> "rainfall"
      [] OTHER -> name

NoCropData == [crop |-> ""]

\* the first entry whose crop equals crop_name, letter case aside
RECURSIVE FindSelected(_, _)
FindSelected(recs, crop_name) ==
    IF recs = << >> THEN NoCropData
    ELSE IF Lower(Head(recs).crop) = Lower(crop_name) THEN Head(recs)
    ELSE FindSelected(Tail(recs), crop_name)

\* one sub-score: the tight range, else the loose range, else the rest
Bucket(value, tight, loose, scores) ==
    IF tight[1] <= value /\ value <= tight[2] THEN scores[1]
    ELSE IF loose[1] <= value /\ value <= loose[2] THEN scores[2]
    ELSE scores[3]

param_scores(soil) ==
    << Bucket(SoilGet(soil, "N", 600), <<400, 800>>, <<300, 900>>, <<90, 75, 50>>),
       Bucket(SoilGet(soil, "P", 450), <<300, 600>>, <<200, 700>>, <<90, 75, 50>>),
       Bucket(SoilGet(soil, "K", 600), <<400, 800>>, <<300, 900>>, <<90, 75, 50>>),
       Bucket(SoilGet(soil, "ph", 65), <<60, 75>>, <<55, 80>>, <<95, 80, 60>>),
       Bucket(SoilGet(soil, "temperature", 250), <<200, 300>>, <<150, 350>>,
              <<90, 75, 60>>) >>

\* sum(param_scores) / len(param_scores), in hundredths
FallbackScore(soil) == (SumSeq(param_scores(soil)) * 100) \div Len(param_scores(soil))

\* the entry found not used: the soil readings always decide
SuitabilityScore_Fallback(selected_crop_data, soil) == FallbackScore(soil)

\* float(agronomic_score.replace('%', '')) of the entry found, else the fallback
SuitabilityScore(selected_crop_data, soil) ==
    IF selected_crop_data # NoCropData THEN selected_crop_data.agronomic_score
    ELSE FallbackScore(soil)

IsSuitable(suitability_score) == suitability_score >= 6000

\* the status analyze_crop gives a reading
BasicStatus(param, value) ==
    CASE param \in {"N", "P", "K"} ->
            IF value < 400 THEN "low" ELSE IF value > 800 THEN "high" ELSE "optimal"
      [] param = "ph" ->
            IF value < 60 THEN "acidic" ELSE IF value > 75 THEN "alkaline" ELSE "optimal"
      [] param = "temperature" ->
            IF value < 200 THEN "low" ELSE IF value > 350 THEN "high" ELSE "optimal"

RECURSIVE BasicParameterAnalysis(_)
BasicParameterAnalysis(soil) ==
    IF soil = << >> THEN << >>
    ELSE LET param == Head(soil).param
             value == Head(soil).value
         IN  (IF param \in {"N", "P", "K", "ph", "temperature"}
              THEN << [param |-> param, current |-> value,
                       status |-> BasicStatus(param, value)] >>
              ELSE << >>) \o BasicParameterAnalysis(Tail(soil))

analyze_crop(df, loaded, classes, probs, top_indices, crop_name, soil) ==
    LET ranking == get_crop_recommendations(df, loaded, classes, probs, top_indices,
                                            soil, LookupBudget)
        selected_crop_data == FindSelected(ranking.returned, crop_name)
        suitability_score  == SuitabilityScore(selected_crop_data, soil)
    IN  [ ranking            |-> ranking,
          selected_crop_data |-> selected_crop_data,
          analysis |-> [ suitability_score   |-> suitability_score,
                         overall_suitability |-> suitability_score,
                         is_suitable         |-> IsSuitable(suitability_score),
                         parameter_analysis  |-> BasicParameterAnalysis(soil) ],
          needs_treatment |-> ~IsSuitable(suitability_score),
          raised |-> NoError, status_code |-> 200 ]

NoAnalysis == [ suitability_score |-> 0, overall_suitability |-> 0,
                is_suitable |-> FALSE, parameter_analysis |-> << >> ]

NoImprovementPlan == [ improvements |-> << >>, needs_improvement |-> FALSE ]

NoCostAnalysis ==
    [ breakdown |-> << >>, total_cost |-> 0, farm_size_hectares |-> 0,
      cost_per_hectare |-> RatZero, message |-> FALSE ]

\* the labels at the head of the label set, with crops dearer than LookupBudget
HeadClasses == SubSeq(AllClasses, 1, NumLabels)

\* crop names a caller may select: stored and costing more than LookupBudget,
\* stored and written in other letter case, stored and cheap, unknown
SelectedCropInputs == { "apple", "COFFEE", "banana", "wheat" }

\* readings on both sides of every threshold of the two analysis handlers
AnalysisReadingsOf(param) ==
    CASE param \in {"N", "K"}  -> { 290, 300, 400, 800, 900, 910 }
      [] param = "P"           -> { 190, 200, 300, 600, 700, 710 }
      [] param = "ph"          -> { 54, 55, 60, 75, 80, 81 }
      [] param = "temperature" -> { 140, 150, 200, 300, 350, 360 }
      [] param = "humidity"    -> { 490, 500, 800, 810 }
      [] param = "rainfall"    -> { 490, 500, 2000, 2010 }

\* the field order of the soil form
SoilParamOrder == << "N", "P", "K", "temperature", "humidity", "ph", "rainfall" >>

\* dicts of exactly n parameters taken from position `from` on, in form order
RECURSIVE AnalysisSoilsFrom(_, _)
AnalysisSoilsFrom(from, n) ==
    IF n = 0 THEN { << >> }
    ELSE IF from > Len(SoilParamOrder) THEN {}
    ELSE AnalysisSoilsFrom(from + 1, n)
         \cup UNION { { << [param |-> SoilParamOrder[from], value |-> v] >> \o d
                          : v \in AnalysisReadingsOf(SoilParamOrder[from]) }
                      : d \in AnalysisSoilsFrom(from + 1, n - 1) }

AnalysisSoils == UNION { AnalysisSoilsFrom(1, k) : k \in 0..MaxSoilParams }

-----------------------------------------------------------------------------
(* analyze_crop_detailed: the /api/analyze-crop-detailed handler.  Costs are *)
(* in rupees, the farm size in tenths of a hectare.                          *)

DetailedRange(param) ==
    CASE param = "N"           -> [min |-> 400, max |-> 800]
      [] param = "P"           -> [min |-> 300, max |-> 600]
      [] param = "K"           -> [min |-> 400, max |-> 800]
      [] param = "ph"          -> [min |-> 60,  max |-> 75]
      [] param = "temperature" -> [min |-> 200, max |-> 300]
      [] param = "humidity"    -> [min |-> 500, max |-> 800]
      [] param = "rainfall"    -> [min |-> 500, max |-> 2000]

DetailedStatus(param, value) ==
    LET optimal == DetailedRange(param)
    IN  IF optimal.min <= value /\ value <= optimal.max THEN "optimal"
        ELSE IF value < optimal.min THEN (IF param = "ph" THEN "acidic" ELSE "low")
        ELSE (IF param = "ph" THEN "alkaline" ELSE "high")

NoRecommendation == [given |-> FALSE, text |-> "", by |-> 0]

\* the recommendation text: its f-string and the amount put into it
Advice(text, by) == [given |-> TRUE, text |-> text, by |-> by]

DetailedRecommendation(param, value) ==
    LET optimal == DetailedRange(param)
        status  == DetailedStatus(param, value)
        below   == optimal.min - value
        above   == value - optimal.max
    IN  IF status = "optimal" THEN NoRecommendation
        ELSE CASE param = "N" ->
                    IF value < optimal.min
                    THEN Advice("Apply nitrogen fertilizer to increase N levels by {} kg/ha", below)
                    ELSE Advice("Reduce nitrogen input by {} kg/ha to avoid leaching", above)
               [] param = "P" ->
                    IF value < optimal.min
                    THEN Advice("Apply phosphatic fertilizer to increase P levels by {} kg/ha", below)
                    ELSE Advice("Reduce phosphorus input by {} kg/ha", above)
               [] param = "K" ->
                    IF value < optimal.min
                    THEN Advice("Apply potash fertilizer to increase K levels by {} kg/ha", below)
                    ELSE Advice("Reduce potassium input by {} kg/ha", above)
               [] param = "ph" ->
                    IF value < optimal.min
                    THEN Advice("Apply lime to increase pH by {:.1f} units", below)
                    ELSE Advice("Apply sulfur to decrease pH by {:.1f} units", above)
               [] param = "temperature" ->
                    IF value < optimal.min
                    THEN Advice("Consider greenhouse cultivation or seasonal timing adjustment", 0)
                    ELSE Advice("Provide shade or cooling systems during hot periods", 0)
               [] param = "humidity" ->
                    IF value < optimal.min
                    THEN Advice("Increase irrigation frequency to maintain soil moisture", 0)
                    ELSE Advice("Improve drainage and air circulation to reduce humidity", 0)
               [] param = "rainfall" ->
                    IF value < optimal.min
                    THEN Advice("Install irrigation system to supplement rainfall", 0)
                    ELSE Advice("Ensure proper drainage to prevent waterlogging", 0)

DetailedParams == { "N", "P", "K", "ph", "temperature", "humidity", "rainfall" }

\* the loop over soil_params.items() that fills parameter_analysis
RECURSIVE DetailedParameterAnalysis(_)
DetailedParameterAnalysis(soil) ==
    IF soil = << >> THEN << >>
    ELSE LET param == Head(soil).param
             value == Head(soil).value
         IN  (IF param \in DetailedParams
              THEN << [ param          |-> param,
                        current        |-> value,
                        status         |-> DetailedStatus(param, value),
                        recommendation |-> DetailedRecommendation(param, value) ] >>
              ELSE << >>) \o DetailedParameterAnalysis(Tail(soil))

\* every deviation given priority High
Priority_AlwaysHigh(status) == "High"

Priority(status) == IF status \in {"low", "high"} THEN "High" ELSE "Medium"

\* analysis["recommendation"] as a condition: neither None nor empty
Truthy(recommendation) == recommendation.given /\ recommendation.text # ""

RECURSIVE Improvements(_)
Improvements(parameter_analysis) ==
    IF parameter_analysis = << >> THEN << >>
    ELSE LET a == Head(parameter_analysis)
         IN  (IF a.status # "optimal" /\ Truthy(a.recommendation)
              THEN << [ parameter |-> Upper(a.param),
                        current   |-> a.current,
                        status    |-> a.status,
                        solution  |-> a.recommendation,
                        priority  |-> Priority(a.status) ] >>
              ELSE << >>) \o Improvements(Tail(parameter_analysis))

FertilizerItem(param) ==
    CASE param = "n" -> "N Fertilizer"
      [] param = "p" -> "P Fertilizer"
      [] param = "k" -> "K Fertilizer"

\* the remediation lines: one for an N, P or K improvement, one for a pH
\* improvement, none for any other
RECURSIVE RemediationCosts(_, _)
RemediationCosts(improvements, farm) ==
    IF improvements = << >> THEN << >>
    ELSE LET param == Lower(Head(improvements).parameter)
         IN  (IF param \in {"n", "p", "k"}
              THEN << [item |-> FertilizerItem(param), cost |-> 800 * farm] >>
              ELSE IF param = "ph"
              THEN << [item |-> "pH Correction (Lime/Sulfur)", cost |-> 400 * farm] >>
              ELSE << >>) \o RemediationCosts(Tail(improvements), farm)

base_costs(farm) ==
    << [item |-> "Seeds", cost |-> 300 * farm],
       [item |-> "Labor", cost |-> 500 * farm],
       [item |-> "Equipment/Tools", cost |-> 200 * farm] >>

maintenance_costs(farm) ==
    << [item |-> "Seeds", cost |-> 300 * farm],
       [item |-> "Maintenance Fertilizer", cost |-> 400 * farm],
       [item |-> "Labor", cost |-> 400 * farm],
       [item |-> "Equipment/Tools", cost |-> 150 * farm] >>

\* the base costs left out of the total
TotalCost_RemediationOnly(cost_breakdown) ==
    SumSeq([i \in DOMAIN cost_breakdown |->
                IF cost_breakdown[i].item \in {"Seeds", "Labor", "Equipment/Tools"}
                THEN 0 ELSE cost_breakdown[i].cost])

\* total_cost += cost, line after line
TotalCost(cost_breakdown) ==
    SumSeq([i \in DOMAIN cost_breakdown |-> cost_breakdown[i].cost])

\* total_cost / farm_size if farm_size > 0 else 0
CostPerHectare(total_cost, farm) ==
    IF farm > 0 THEN Rat(total_cost * 10, farm) ELSE RatZero

CostAnalysis(improvements, needs_improvement, farm) ==
    LET cost_breakdown ==
            IF needs_improvement
            THEN RemediationCosts(improvements, farm) \o base_costs(farm)
            ELSE maintenance_costs(farm)
        total_cost == TotalCost(cost_breakdown)
    IN  [ breakdown          |-> cost_breakdown,
          total_cost         |-> total_cost,
          farm_size_hectares |-> farm,
          cost_per_hectare   |-> CostPerHectare(total_cost, farm),
          message            |-> ~needs_improvement ]

analyze_crop_detailed(df, loaded, classes, probs, top_indices, crop_name, soil, farm) ==
    LET basic_analysis     == analyze_crop(df, loaded, classes, probs, top_indices,
                                           crop_name, soil)
        parameter_analysis == DetailedParameterAnalysis(soil)
        improvements       == Improvements(parameter_analysis)
        needs_improvement  == improvements # << >>
    IN  [ ranking            |-> basic_analysis.ranking,
          selected_crop_data |-> basic_analysis.selected_crop_data,
          analysis |-> [basic_analysis.analysis EXCEPT
                            !.suitability_score = basic_analysis.analysis.overall_suitability,
                            !.parameter_analysis = parameter_analysis],
          needs_treatment  |-> basic_analysis.needs_treatment,
          improvement_plan |-> [ improvements      |-> improvements,
                                 needs_improvement |-> needs_improvement ],
          cost_analysis    |-> CostAnalysis(improvements, needs_improvement, farm),
          raised |-> NoError, status_code |-> 200 ]

\* farm sizes a request may carry, in tenths of a hectare: the field is a
\* float without a lower limit
FarmSizes == { -10, 0, 5, 10, 25 }

-----------------------------------------------------------------------------
(* State *)

VARIABLES
    request,              \* the operation this behaviour runs
    pc,                   \* "call" before it runs, "return" after
    raised,               \* the exception that left the operation, or NoError
    economic_df,          \* self.economic_df
    model_loaded,         \* self.model is not None
    label_classes,        \* self.label_encoder.classes_
    probabilities,        \* what model.predict_proba returns for the request
    budget,
    input_df,             \* locals of get_crop_recommendations, kept to be observed
    top_crops,
    top_probs,
    recommendations,
    crop_recommendations, \* the list get_crop_recommendations returned
    ranking_failed,       \* get_crop_recommendations returned [] on an error
    primary_crop,
    location_climate,
    rotation_plan,
    soil_params,
    soil_treatments,
    weather_forecast,
    crop_advisory,
    status_code,          \* of the HTTP response, 0 while there is none
    selected_crop,        \* request.selected_crop
    farm_size,            \* request.farm_size_hectares, in tenths of a hectare
    selected_crop_data,   \* local of analyze_crop, kept to be observed
    analysis,             \* the "analysis" object of the analysis handlers' reply
    needs_treatment,      \* the "needs_treatment" key of the same reply
    improvement_plan,
    cost_analysis,
    location,             \* request.location
    fetches,              \* where each of the three fetch tasks stands
    fetch_failed,         \* the fetches that took their except branch
    soil_data,            \* what get_soil_data returned
    location_info,        \* what get_location_info returned
    weather_log,          \* the get_weather_forecast calls made, with their results
    served                \* requests crop_service answered before the current one

vars == << request, pc, raised, economic_df, model_loaded, label_classes,
           probabilities, budget,
           input_df, top_crops, top_probs, recommendations, crop_recommendations,
           ranking_failed, primary_crop, location_climate, rotation_plan,
           soil_params, soil_treatments, weather_forecast, crop_advisory,
           status_code, selected_crop, farm_size, selected_crop_data, analysis,
           needs_treatment, improvement_plan, cost_analysis,
           location, fetches, fetch_failed, soil_data, location_info, weather_log,
           served >>

\* what an operation is given and never assigns
callVars == << request, model_loaded, label_classes, probabilities, budget,
               location_climate, soil_params, weather_forecast, selected_crop,
               farm_size >>

inputVars == << economic_df, callVars >>

rankingVars == << input_df, top_crops, top_probs, recommendations, crop_recommendations,
                  ranking_failed >>

analysisVars == << selected_crop_data, analysis, needs_treatment, improvement_plan,
                   cost_analysis >>

serviceVars == << location, fetches, fetch_failed, soil_data, location_info,
                  weather_log, served >>

Tasks == { "weather", "soil", "location" }

NoSoilData == [ origin |-> "", seed |-> << >> ]

NoLocationInfo == [ display_name |-> "", city |-> "" ]

\* the three fetches of /api/recommend resolved without a network
FetchesFailed ==
    /\ location = [latitude |-> 21146, longitude |-> 79088]
    /\ fetches = [t \in Tasks |-> "done"]
    /\ fetch_failed = Tasks
    /\ soil_data = get_soil_data(FetchError, location.latitude, location.longitude)
    /\ location_info = get_location_info(FetchError, location.latitude,
                                         location.longitude)
    /\ weather_log = << >>

\* classifier outputs with all the weight on one label
GatherProbabilities ==
    { [i \in 1..NumLabels |-> IF i = k THEN ProbSum ELSE 0] : k \in 1..NumLabels }

\* requests one crop_service answers one after the other
MaxRequests == 3

\* the engine calls the requests of a session make
EngineCalls ==
    { [ request |-> "get_crop_recommendations", model_loaded |-> TRUE,
        probabilities |-> p, budget |-> b, primary_crop |-> "",
        location_climate |-> "temperate", soil_params |-> << >>,
        weather_forecast |-> << >> ] : p \in GatherProbabilities, b \in FlowBudgets }
    \cup
    { [ request |-> "generate_rotation_plan", model_loaded |-> TRUE,
        probabilities |-> << >>, budget |-> 0, primary_crop |-> c,
        location_climate |-> k, soil_params |-> << >>,
        weather_forecast |-> << >> ] : c \in PrimaryCropInputs, k \in Climates }
    \cup
    { [ request |-> "analyze_soil_treatment", model_loaded |-> TRUE,
        probabilities |-> << >>, budget |-> 0, primary_crop |-> "",
        location_climate |-> "temperate", soil_params |-> d,
        weather_forecast |-> << >> ] : d \in SoilDicts(1) }
    \cup
    { [ request |-> "generate_crop_advisory", model_loaded |-> TRUE,
        probabilities |-> << >>, budget |-> 0, primary_crop |-> "",
        location_climate |-> "temperate", soil_params |-> << >>,
        weather_forecast |-> f ] : f \in Forecasts(1) }

\* an operation that fetches nothing
NoFetches ==
    /\ location = [latitude |-> 0, longitude |-> 0]
    /\ fetches = [t \in Tasks |-> "none"]
    /\ fetch_failed = {}
    /\ soil_data = NoSoilData
    /\ location_info = NoLocationInfo
    /\ weather_log = << >>

\* __init__: load_models, create_enhanced_economic_dataset; nothing called yet
Constructed ==
    /\ pc = "call"
    /\ raised = NoError
    /\ economic_df = create_enhanced_economic_dataset
    /\ served = 0
    /\ input_df = << >>
    /\ top_crops = << >>
    /\ top_probs = << >>
    /\ recommendations = << >>
    /\ crop_recommendations = << >>
    /\ ranking_failed = FALSE
    /\ rotation_plan = << >>
    /\ soil_treatments = << >>
    /\ crop_advisory = NoAdvisory
    /\ status_code = 0
    /\ selected_crop_data = NoCropData
    /\ analysis = NoAnalysis
    /\ needs_treatment = FALSE
    /\ improvement_plan = NoImprovementPlan
    /\ cost_analysis = NoCostAnalysis

\* load_models leaves self.model None when the pickles are missing
ClassifierInputs ==
    /\ label_classes = classes_
    /\ \/ model_loaded = TRUE /\ probabilities \in ProbabilityVectors
       \/ model_loaded = FALSE /\ probabilities = << >>

NoClassifierInputs ==
    /\ model_loaded = TRUE
    /\ label_classes = classes_
    /\ probabilities = << >>
    /\ budget = 0

NoRotationInputs == primary_crop = "" /\ location_climate = "temperate"

NoAnalysisInputs == selected_crop = "" /\ farm_size = 10

InitRanking ==
    /\ request = "get_crop_recommendations"
    /\ Constructed
    /\ NoFetches
    /\ NoAnalysisInputs
    /\ ClassifierInputs
    /\ budget \in Budgets
    /\ NoRotationInputs
    /\ soil_params = << >>
    /\ weather_forecast = << >>

\* get_crop_recommendations with either label set behind the classifier
InitStoreLookup ==
    /\ request = "get_crop_recommendations"
    /\ Constructed
    /\ NoFetches
    /\ NoAnalysisInputs
    /\ model_loaded = TRUE
    /\ label_classes \in LabelSets
    /\ probabilities \in Distributions(NumLabels)
    /\ budget \in Budgets
    /\ NoRotationInputs
    /\ soil_params = << >>
    /\ weather_forecast = << >>

InitRotation ==
    /\ request = "generate_rotation_plan"
    /\ Constructed
    /\ NoFetches
    /\ NoAnalysisInputs
    /\ NoClassifierInputs
    /\ primary_crop \in PrimaryCropInputs
    /\ location_climate \in Climates
    /\ soil_params = << >>
    /\ weather_forecast = << >>

InitSoil ==
    /\ request = "analyze_soil_treatment"
    /\ Constructed
    /\ NoFetches
    /\ NoAnalysisInputs
    /\ NoClassifierInputs
    /\ NoRotationInputs
    /\ soil_params \in SoilInputs
    /\ weather_forecast = << >>

InitAdvisory ==
    /\ request = "generate_crop_advisory"
    /\ Constructed
    /\ NoFetches
    /\ NoAnalysisInputs
    /\ NoClassifierInputs
    /\ NoRotationInputs
    /\ soil_params = << >>
    /\ weather_forecast \in Forecasts(MaxDays)

InitFlow ==
    /\ request = "/api/recommend"
    /\ Constructed
    /\ FetchesFailed
    /\ NoAnalysisInputs
    /\ ClassifierInputs
    /\ budget \in FlowBudgets
    /\ NoRotationInputs
    /\ soil_params \in FlowSoils
    /\ weather_forecast \in FlowForecasts

\* /api/analyze-crop: every classifier output with one soil, and every soil
\* with the classifier missing or giving one output
InitAnalyze ==
    /\ request = "/api/analyze-crop"
    /\ Constructed
    /\ NoFetches
    /\ label_classes = HeadClasses
    /\ budget = 0
    /\ NoRotationInputs
    /\ weather_forecast = << >>
    /\ selected_crop \in SelectedCropInputs
    /\ farm_size = 10
    /\ \/ /\ model_loaded = TRUE
          /\ probabilities \in Distributions(NumLabels)
          /\ soil_params = ExampleSoil
       \/ /\ model_loaded = FALSE
          /\ probabilities = << >>
          /\ soil_params \in AnalysisSoils

\* /api/analyze-crop-detailed: every soil and farm size with the classifier
\* missing, and every classifier output with the example soil
InitDetailed ==
    /\ request = "/api/analyze-crop-detailed"
    /\ Constructed
    /\ NoFetches
    /\ label_classes = HeadClasses
    /\ budget = 0
    /\ NoRotationInputs
    /\ weather_forecast = << >>
    /\ selected_crop \in { "banana", "wheat" }
    /\ \/ /\ model_loaded = FALSE
          /\ probabilities = << >>
          /\ soil_params \in AnalysisSoils \cup { ExampleSoil }
          /\ farm_size \in FarmSizes
       \/ /\ model_loaded = TRUE
          /\ probabilities \in Distributions(NumLabels)
          /\ soil_params = ExampleSoil
          /\ farm_size = 25

\* get_crop_recommendations on soil dicts that lack fields
InitFeatures ==
    /\ request = "get_crop_recommendations"
    /\ Constructed
    /\ NoFetches
    /\ NoAnalysisInputs
    /\ model_loaded = TRUE
    /\ label_classes = classes_
    /\ probabilities \in Distributions(NumLabels)
    /\ budget = 50000
    /\ NoRotationInputs
    /\ soil_params \in SoilDicts(1) \cup { ExampleSoil }
    /\ weather_forecast = << >>

\* generate_crop_advisory on forecasts shorter and longer than its windows
InitLongAdvisory ==
    /\ request = "generate_crop_advisory"
    /\ Constructed
    /\ NoFetches
    /\ NoAnalysisInputs
    /\ NoClassifierInputs
    /\ NoRotationInputs
    /\ soil_params = << >>
    /\ weather_forecast \in LongForecasts

\* generate_crop_advisory on forecasts whose entries may omit humidity
InitSparseAdvisory ==
    /\ request = "generate_crop_advisory"
    /\ Constructed
    /\ NoFetches
    /\ NoAnalysisInputs
    /\ NoClassifierInputs
    /\ NoRotationInputs
    /\ soil_params = << >>
    /\ weather_forecast \in SparseForecasts(MaxDays)

\* /api/recommend from the start of the handler, nothing fetched yet
InitGather ==
    /\ request = "/api/recommend"
    /\ Constructed
    /\ location \in Locations
    /\ fetches = [t \in Tasks |-> "created"]
    /\ fetch_failed = {}
    /\ soil_data = NoSoilData
    /\ location_info = NoLocationInfo
    /\ weather_log = << >>
    /\ NoAnalysisInputs
    /\ label_classes = classes_
    /\ \/ model_loaded = TRUE /\ probabilities \in GatherProbabilities
       \/ model_loaded = FALSE /\ probabilities = << >>
    /\ budget = 30000
    /\ NoRotationInputs
    /\ soil_params = ExampleSoil
    /\ weather_forecast = << >>

\* the first request of a session on the module-level crop_service
InitSession ==
    /\ Constructed
    /\ NoFetches
    /\ NoAnalysisInputs
    /\ label_classes = classes_
    /\ \E call \in EngineCalls :
         /\ request = call.request
         /\ model_loaded = call.model_loaded
         /\ probabilities = call.probabilities
         /\ budget = call.budget
         /\ primary_crop = call.primary_crop
         /\ location_climate = call.location_climate
         /\ soil_params = call.soil_params
         /\ weather_forecast = call.weather_forecast

\* the weather service on its own, as behind /api/weather
InitWeather ==
    /\ request = "get_weather_forecast"
    /\ Constructed
    /\ NoFetches
    /\ NoAnalysisInputs
    /\ NoClassifierInputs
    /\ NoRotationInputs
    /\ soil_params = << >>
    /\ weather_forecast = << >>

Init == InitRanking \/ InitRotation

GetCropRecommendations ==
    /\ request = "get_crop_recommendations"
    /\ pc = "call"
    /\ \E top_indices \in (IF model_loaded THEN TopIndices(probabilities) ELSE { << >> }) :
         \E r \in { get_crop_recommendations(economic_df, model_loaded, label_classes,
                                           probabilities, top_indices, soil_params,
                                           budget) } :
             /\ input_df' = r.input_df
             /\ top_crops' = r.top_crops
             /\ top_probs' = r.top_probs
             /\ recommendations' = r.recommendations
             /\ crop_recommendations' = r.returned
             /\ ranking_failed' = r.failed
    /\ pc' = "return"
    /\ UNCHANGED serviceVars
    /\ economic_df' = ReadStore(economic_df)
    /\ UNCHANGED << callVars, status_code >>
    /\ UNCHANGED analysisVars
    /\ UNCHANGED << raised, primary_crop, rotation_plan, soil_treatments, crop_advisory >>

GenerateRotationPlan ==
    /\ request = "generate_rotation_plan"
    /\ pc = "call"
    /\ rotation_plan' = generate_rotation_plan(economic_df, primary_crop, location_climate)
    /\ pc' = "return"
    /\ UNCHANGED serviceVars
    /\ economic_df' = ReadStore(economic_df)
    /\ UNCHANGED << callVars, status_code >>
    /\ UNCHANGED analysisVars
    /\ UNCHANGED rankingVars
    /\ UNCHANGED << raised, primary_crop, soil_treatments, crop_advisory >>

AnalyzeSoilTreatment ==
    /\ request = "analyze_soil_treatment"
    /\ pc = "call"
    /\ LET r == analyze_soil_treatment(soil_params)
       IN  /\ soil_treatments' = r.returned
           /\ raised' = r.raised
    /\ pc' = "return"
    /\ UNCHANGED serviceVars
    /\ economic_df' = ReadStore(economic_df)
    /\ UNCHANGED << callVars, status_code >>
    /\ UNCHANGED analysisVars
    /\ UNCHANGED rankingVars
    /\ UNCHANGED << primary_crop, rotation_plan, crop_advisory >>

GenerateCropAdvisory ==
    /\ request = "generate_crop_advisory"
    /\ pc = "call"
    /\ IF AdvisoryRaises(weather_forecast)
       THEN raised' = "KeyError" /\ UNCHANGED crop_advisory
       ELSE /\ crop_advisory' = generate_crop_advisory(weather_forecast)
            /\ UNCHANGED raised
    /\ pc' = "return"
    /\ UNCHANGED serviceVars
    /\ economic_df' = ReadStore(economic_df)
    /\ UNCHANGED << callVars, status_code >>
    /\ UNCHANGED analysisVars
    /\ UNCHANGED rankingVars
    /\ UNCHANGED << primary_crop, rotation_plan, soil_treatments >>

\* the same crop_service takes the next request: fresh arguments and locals,
\* the store as the requests before left it
NextRequest ==
    /\ pc = "return"
    /\ served < MaxRequests
    /\ served' = served + 1
    /\ \E call \in EngineCalls :
         /\ request' = call.request
         /\ model_loaded' = call.model_loaded
         /\ probabilities' = call.probabilities
         /\ budget' = call.budget
         /\ primary_crop' = call.primary_crop
         /\ location_climate' = call.location_climate
         /\ soil_params' = call.soil_params
         /\ weather_forecast' = call.weather_forecast
    /\ pc' = "call"
    /\ raised' = NoError
    /\ input_df' = << >>
    /\ top_crops' = << >>
    /\ top_probs' = << >>
    /\ recommendations' = << >>
    /\ crop_recommendations' = << >>
    /\ ranking_failed' = FALSE
    /\ rotation_plan' = << >>
    /\ soil_treatments' = << >>
    /\ crop_advisory' = NoAdvisory
    /\ UNCHANGED << economic_df, label_classes, status_code, selected_crop, farm_size >>
    /\ UNCHANGED analysisVars
    /\ UNCHANGED << location, fetches, fetch_failed, soil_data, location_info,
                    weather_log >>

\* lines 66-84 of the handler: the three coroutines are created and handed
\* to asyncio.gather, which schedules them as tasks and suspends the handler
Gather ==
    /\ request = "/api/recommend"
    /\ pc = "call"
    /\ \A t \in Tasks : fetches[t] = "created"
    /\ fetches' = [t \in Tasks |-> "scheduled"]
    /\ UNCHANGED << pc, raised, status_code, inputVars, primary_crop, rotation_plan,
                    soil_treatments, crop_advisory >>
    /\ UNCHANGED << analysisVars, rankingVars >>
    /\ UNCHANGED << served, location, fetch_failed, soil_data, location_info, weather_log >>

\* the event loop runs a scheduled task, in the order of scheduling, up to its
\* await client.get(...)
SendRequest(k) ==
    /\ request = "/api/recommend"
    /\ fetches[GatherOrder[k]] = "scheduled"
    /\ \A j \in 1..(k - 1) : fetches[GatherOrder[j]] # "scheduled"
    /\ fetches' = [fetches EXCEPT ![GatherOrder[k]] = "waiting"]
    /\ UNCHANGED << pc, raised, status_code, inputVars, primary_crop, rotation_plan,
                    soil_treatments, crop_advisory >>
    /\ UNCHANGED << analysisVars, rankingVars >>
    /\ UNCHANGED << served, location, fetch_failed, soil_data, location_info, weather_log >>

\* the reply to a request arrives, or the request fails: the task runs to its
\* return, through its except branch when something was raised
ResolveWeather ==
    /\ request = "/api/recommend"
    /\ fetches["weather"] = "waiting"
    /\ \E response \in WeatherResponses(7) :
         /\ weather_forecast' = get_weather_forecast(response, 7)
         /\ fetch_failed' = IF ResponseRaises(response)
                            THEN fetch_failed \cup { "weather" } ELSE fetch_failed
    /\ fetches' = [fetches EXCEPT !["weather"] = "done"]
    /\ UNCHANGED << pc, raised, status_code, primary_crop, rotation_plan,
                    soil_treatments, crop_advisory >>
    /\ UNCHANGED << request, economic_df, model_loaded, label_classes, probabilities,
                    budget, location_climate, soil_params, selected_crop, farm_size >>
    /\ UNCHANGED << analysisVars, rankingVars >>
    /\ UNCHANGED << served, location, soil_data, location_info, weather_log >>

ResolveSoil ==
    /\ request = "/api/recommend"
    /\ fetches["soil"] = "waiting"
    /\ \E response \in SoilResponses :
         /\ soil_data' = get_soil_data(response, location.latitude, location.longitude)
         /\ fetch_failed' = IF response = FetchError
                            THEN fetch_failed \cup { "soil" } ELSE fetch_failed
    /\ fetches' = [fetches EXCEPT !["soil"] = "done"]
    /\ UNCHANGED << pc, raised, status_code, inputVars, primary_crop, rotation_plan,
                    soil_treatments, crop_advisory >>
    /\ UNCHANGED << analysisVars, rankingVars >>
    /\ UNCHANGED << served, location, location_info, weather_log >>

ResolveLocation ==
    /\ request = "/api/recommend"
    /\ fetches["location"] = "waiting"
    /\ \E response \in LocationResponses :
         /\ location_info' = get_location_info(response, location.latitude,
                                               location.longitude)
         /\ fetch_failed' = IF response = FetchError
                            THEN fetch_failed \cup { "location" } ELSE fetch_failed
    /\ fetches' = [fetches EXCEPT !["location"] = "done"]
    /\ UNCHANGED << pc, raised, status_code, inputVars, primary_crop, rotation_plan,
                    soil_treatments, crop_advisory >>
    /\ UNCHANGED << analysisVars, rankingVars >>
    /\ UNCHANGED << served, location, soil_data, weather_log >>

\* the handler from the await on: the engine steps and the response
GetComprehensiveRecommendation ==
    /\ request = "/api/recommend"
    /\ pc = "call"
    /\ GatherDone(fetches)
    /\ \E top_indices \in (IF model_loaded THEN TopIndices(probabilities) ELSE { << >> }) :
         \E r \in { get_comprehensive_recommendation(economic_df, model_loaded,
                      label_classes, probabilities, top_indices, budget, soil_params,
                      weather_forecast) } :
             /\ input_df' = r.ranking.input_df
             /\ top_crops' = r.ranking.top_crops
             /\ top_probs' = r.ranking.top_probs
             /\ recommendations' = r.ranking.recommendations
             /\ crop_recommendations' = r.ranking.returned
             /\ ranking_failed' = r.ranking.failed
             /\ soil_treatments' = r.soil_treatments
             /\ primary_crop' = r.primary_crop
             /\ rotation_plan' = r.rotation_plan
             /\ crop_advisory' = r.crop_advisory
             /\ raised' = r.raised
             /\ status_code' = r.status_code
    /\ pc' = "return"
    /\ UNCHANGED serviceVars
    /\ economic_df' = ReadStore(economic_df)
    /\ UNCHANGED callVars
    /\ UNCHANGED analysisVars

AnalyzeCrop ==
    /\ request = "/api/analyze-crop"
    /\ pc = "call"
    /\ \E top_indices \in (IF model_loaded THEN TopIndices(probabilities) ELSE { << >> }) :
         \E r \in { analyze_crop(economic_df, model_loaded, label_classes, probabilities,
                                 top_indices, selected_crop, soil_params) } :
             /\ input_df' = r.ranking.input_df
             /\ top_crops' = r.ranking.top_crops
             /\ top_probs' = r.ranking.top_probs
             /\ recommendations' = r.ranking.recommendations
             /\ crop_recommendations' = r.ranking.returned
             /\ ranking_failed' = r.ranking.failed
             /\ selected_crop_data' = r.selected_crop_data
             /\ analysis' = r.analysis
             /\ needs_treatment' = r.needs_treatment
             /\ raised' = r.raised
             /\ status_code' = r.status_code
    /\ pc' = "return"
    /\ UNCHANGED serviceVars
    /\ economic_df' = ReadStore(economic_df)
    /\ UNCHANGED callVars
    /\ UNCHANGED << primary_crop, rotation_plan, soil_treatments, crop_advisory,
                    improvement_plan, cost_analysis >>

AnalyzeCropDetailed ==
    /\ request = "/api/analyze-crop-detailed"
    /\ pc = "call"
    /\ \E top_indices \in (IF model_loaded THEN TopIndices(probabilities) ELSE { << >> }) :
         \E r \in { analyze_crop_detailed(economic_df, model_loaded, label_classes,
                          probabilities, top_indices, selected_crop, soil_params,
                          farm_size) } :
             /\ input_df' = r.ranking.input_df
             /\ top_crops' = r.ranking.top_crops
             /\ top_probs' = r.ranking.top_probs
             /\ recommendations' = r.ranking.recommendations
             /\ crop_recommendations' = r.ranking.returned
             /\ ranking_failed' = r.ranking.failed
             /\ selected_crop_data' = r.selected_crop_data
             /\ analysis' = r.analysis
             /\ needs_treatment' = r.needs_treatment
             /\ improvement_plan' = r.improvement_plan
             /\ cost_analysis' = r.cost_analysis
             /\ raised' = r.raised
             /\ status_code' = r.status_code
    /\ pc' = "return"
    /\ UNCHANGED serviceVars
    /\ economic_df' = ReadStore(economic_df)
    /\ UNCHANGED callVars
    /\ UNCHANGED << primary_crop, rotation_plan, soil_treatments, crop_advisory >>

\* one call of get_weather_forecast, for any location, length and outcome of
\* the request
GetWeatherForecast ==
    /\ request = "get_weather_forecast"
    /\ Len(weather_log) < MaxCalls
    /\ \E place \in Locations, days \in WeatherDays :
         \E response \in WeatherResponses(days) :
             weather_log' = Append(weather_log,
                                   [ latitude  |-> place.latitude,
                                     longitude |-> place.longitude,
                                     days      |-> days,
                                     failed    |-> ResponseRaises(response),
                                     forecast  |-> get_weather_forecast(response, days) ])
    /\ pc' = "return"
    /\ UNCHANGED << inputVars, status_code, raised, primary_crop, rotation_plan,
                    soil_treatments, crop_advisory >>
    /\ UNCHANGED << analysisVars, rankingVars >>
    /\ UNCHANGED << served, location, fetches, fetch_failed, soil_data, location_info >>

Next == GetCropRecommendations \/ GenerateRotationPlan

\* get_crop_recommendations and generate_rotation_plan, each on every input
Spec == Init /\ [][Next]_vars

\* analyze_soil_treatment on every soil dict
SpecSoil == InitSoil /\ [][AnalyzeSoilTreatment]_vars

\* generate_crop_advisory on every forecast
SpecAdvisory == InitAdvisory /\ [][GenerateCropAdvisory]_vars

\* get_crop_recommendations over label sets with and without an unknown crop
SpecStoreLookup == InitStoreLookup /\ [][GetCropRecommendations]_vars

\* the /api/analyze-crop handler, and generate_rotation_plan, on known and
\* unknown crops
SpecAnalyze == (InitAnalyze \/ InitRotation) /\ [][AnalyzeCrop \/ GenerateRotationPlan]_vars

\* the /api/analyze-crop-detailed handler
SpecDetailed == InitDetailed /\ [][AnalyzeCropDetailed]_vars

\* generate_crop_advisory on forecasts of 0 to LongDays entries
SpecLongAdvisory == InitLongAdvisory /\ [][GenerateCropAdvisory]_vars

\* the three engine operations on inputs that lack fields
SpecMissingFields ==
    (InitFeatures \/ InitSoil \/ InitSparseAdvisory)
        /\ [][GetCropRecommendations \/ AnalyzeSoilTreatment \/ GenerateCropAdvisory]_vars

\* the two analysis handlers on the same soils
SpecRanges == (InitAnalyze \/ InitDetailed) /\ [][AnalyzeCrop \/ AnalyzeCropDetailed]_vars

\* the /api/recommend handler with its three fetches, in every order of
\* completion and with every combination of failures
NextGather ==
    \/ Gather
    \/ \E k \in DOMAIN GatherOrder : SendRequest(k)
    \/ ResolveWeather
    \/ ResolveSoil
    \/ ResolveLocation
    \/ GetComprehensiveRecommendation

SpecGather == InitGather /\ [][NextGather]_vars

\* requests answered one after the other by the same crop_service, in every
\* order: the engine operations hold no await, so the event loop runs each of
\* them to its end before another request's code runs
SpecSession ==
    InitSession
        /\ [][GetCropRecommendations \/ GenerateRotationPlan \/ AnalyzeSoilTreatment
                 \/ GenerateCropAdvisory \/ NextRequest]_vars

\* get_weather_forecast called MaxCalls times
SpecWeather == InitWeather /\ [][GetWeatherForecast]_vars

\* the /api/recommend handler on every classifier output
SpecFlow == InitFlow /\ [][GetComprehensiveRecommendation]_vars

-----------------------------------------------------------------------------
(* Properties of get_crop_recommendations *)

RankingReturned == request = "get_crop_recommendations" /\ pc = "return"

StoreCost(crop) == economic_df[crop].Cost_of_Cultivation_per_Hectare

\* C1: in the returned list every Recommended entry costs at most the budget,
\* and every other entry costs more than the budget and has profit_margin 0.
C1_StatusMatchesBudget ==
    RankingReturned =>
        \A i \in DOMAIN crop_recommendations :
            LET r == crop_recommendations[i]
            IN  /\ IsRecommended(r) => StoreCost(r.crop) <= budget
                /\ ~IsRecommended(r) =>
                       StoreCost(r.crop) > budget /\ RatEq(r.profit_margin, RatZero)

\* a returned list holding a crop that costs exactly the budget, a cheaper one
\* and a dearer one
C1_Witness ==
    /\ RankingReturned
    /\ \E i, j, k \in DOMAIN crop_recommendations :
         /\ StoreCost(crop_recommendations[i].crop) = budget
         /\ IsRecommended(crop_recommendations[j])
         /\ StoreCost(crop_recommendations[j].crop) < budget
         /\ ~IsRecommended(crop_recommendations[k])

\* the candidates the store holds, in candidate order
RECURSIVE StoredCandidates(_)
StoredCandidates(crops) ==
    IF crops = << >> THEN << >>
    ELSE (IF Head(crops) \in DOMAIN economic_df THEN << Head(crops) >> ELSE << >>)
             \o StoredCandidates(Tail(crops))

\* yield * price * 10 from the store's columns, the yield being in tenths
StoreRevenue(crop) ==
    economic_df[crop].Avg_Yield_per_Hectare
        * economic_df[crop].Avg_Market_Price_per_Quintal

\* C12: the entries built are those of the candidates the store holds, one
\* each and in candidate order (a candidate the store lacks gets none); an
\* entry that shows its figures has profit = yield * price * 10 - cost and
\* profit_margin = profit / revenue * 100 when revenue > 0, 0 otherwise.
C12_RevenueProfitMargin ==
    (RankingReturned /\ ~ranking_failed) =>
        /\ [i \in DOMAIN recommendations |-> recommendations[i].crop]
               = StoredCandidates(top_crops)
        /\ \A i \in DOMAIN recommendations :
             LET r       == recommendations[i]
                 revenue == StoreRevenue(r.crop)
                 profit  == revenue - StoreCost(r.crop)
             IN  IsRecommended(r) =>
                     /\ r.estimated_profit = [available |-> TRUE, value |-> profit]
                     /\ r.profit_margin =
                            IF revenue > 0 THEN Rat(profit * 100, revenue) ELSE RatZero

\* five candidates of which one is unknown to the store, the others all shown
\* with their figures
C12_Witness ==
    /\ RankingReturned
    /\ ~ranking_failed
    /\ Len(top_crops) = TopN
    /\ \E i \in DOMAIN top_crops : top_crops[i] \notin DOMAIN economic_df
    /\ Len(recommendations) = TopN - 1
    /\ \A i \in DOMAIN recommendations : IsRecommended(recommendations[i])

PositionIn(list, crop) == CHOOSE i \in DOMAIN list : list[i].crop = crop

\* C2: the returned list is the Recommended entries by profit_margin descending
\* (equal margins in input order), then the other entries in input order.
C2_RankedOrder ==
    RankingReturned =>
        LET out == crop_recommendations
            inp == recommendations
            k   == Len(SelectSeq(inp, IsRecommended))
        IN  /\ Len(out) = Len(inp)
            /\ Range(out) = Range(inp)
            /\ \A i \in DOMAIN out : IsRecommended(out[i]) <=> i <= k
            /\ \A i \in 1..(k - 1) :
                   ~RatLess(out[i].profit_margin, out[i + 1].profit_margin)
            /\ \A i, j \in 1..k :
                   (i < j /\ RatEq(out[i].profit_margin, out[j].profit_margin))
                       => PositionIn(inp, out[i].crop) < PositionIn(inp, out[j].crop)
            /\ SubSeq(out, k + 1, Len(out)) = SelectSeq(inp, IsNotRecommended)

\* the sort moved an entry: Recommended entries that were not in margin order,
\* behind an over-budget entry of higher probability, and a second over-budget
\* entry
C2_Witness ==
    /\ RankingReturned
    /\ Len(SelectSeq(recommendations, IsRecommended)) >= 2
    /\ Len(SelectSeq(recommendations, IsNotRecommended)) >= 2
    /\ ~IsRecommended(recommendations[1])
    /\ crop_recommendations # recommendations
    /\ SelectSeq(crop_recommendations, IsRecommended)
           # SelectSeq(recommendations, IsRecommended)

IndexOfLabel(crop) == CHOOSE i \in DOMAIN classes_ : classes_[i] = crop

SelectedIndices == { IndexOfLabel(top_crops[i]) : i \in DOMAIN top_crops }

\* C8: the selected candidates are in probability-descending order, at most
\* TopN of them, and no label left out is more probable than a selected one.
C8_TopNSelected ==
    (RankingReturned /\ ~ranking_failed) =>
        /\ Len(top_crops) = Min2(TopN, Len(probabilities))
        /\ Len(top_crops) <= TopN
        /\ Len(top_probs) = Len(top_crops)
        /\ Cardinality(SelectedIndices) = Len(top_crops)
        /\ \A i \in DOMAIN top_crops :
               top_probs[i] = probabilities[IndexOfLabel(top_crops[i])]
        /\ \A i \in 1..(Len(top_probs) - 1) : top_probs[i] >= top_probs[i + 1]
        /\ \A j \in DOMAIN probabilities \ SelectedIndices :
               \A i \in DOMAIN top_probs : probabilities[j] <= top_probs[i]

\* a vector over the whole label set with three different probabilities, the
\* largest one not on the first labels, and a label left out
C8_Witness ==
    /\ RankingReturned /\ ~ranking_failed
    /\ Len(probabilities) = NumLabels
    /\ Len(top_crops) = TopN
    /\ top_probs[1] > top_probs[2]
    /\ top_probs[2] > top_probs[TopN]
    /\ IndexOfLabel(top_crops[1]) > IndexOfLabel(top_crops[2])

\* C9 (as claimed): labels of equal probability are selected and listed in
\* label order, the earlier label first.
C9_TiesInLabelOrder ==
    (RankingReturned /\ ~ranking_failed) =>
        /\ \A i, j \in DOMAIN top_crops :
               (i < j /\ top_probs[i] = top_probs[j])
                   => IndexOfLabel(top_crops[i]) < IndexOfLabel(top_crops[j])
        /\ \A j \in DOMAIN classes_ \ SelectedIndices :
               \A i \in DOMAIN top_crops :
                   (j <= Len(probabilities) /\ probabilities[j] = top_probs[i])
                       => IndexOfLabel(top_crops[i]) < j

-----------------------------------------------------------------------------
(* Properties of generate_rotation_plan *)

RotationReturned == request = "generate_rotation_plan" /\ pc = "return"

PlanField(plan, f) == [i \in DOMAIN plan |-> plan[i][f]]

\* C5 (as claimed): for primary crop rice the plan has 3 steps with crop types
\* legume, vegetable, cereal and seasons Kharif, Rabi, Kharif.
C5_RiceRotationTypes ==
    (RotationReturned /\ primary_crop = "rice") =>
        /\ Len(rotation_plan) = 3
        /\ PlanField(rotation_plan, "crop_type") = << "legume", "vegetable", "cereal" >>
        /\ PlanField(rotation_plan, "season") = << "Kharif", "Rabi", "Kharif" >>

\* C6: for a stored primary crop the steps are numbered 1..L, L the length of
\* the sequence of the crop's type (3); step 1 is the primary crop; the season
\* is Kharif in odd years and Rabi in even ones; estimated_profit is
\* max(0, yield*price*10 - cost) of the step's crop, so never negative.
C6_RotationPlanShape ==
    (RotationReturned /\ primary_crop \in DOMAIN economic_df) =>
        LET plan == rotation_plan
            type == economic_df[primary_crop].Crop_Type
        IN  /\ Len(plan) = Len(DictGet(rotation_sequences, type, DefaultSequence))
            /\ Len(plan) = 3
            /\ plan[1].recommended_crop = primary_crop
            /\ \A i \in DOMAIN plan :
                   LET row == economic_df[plan[i].recommended_crop]
                       profit == (row.Avg_Yield_per_Hectare
                                     * row.Avg_Market_Price_per_Quintal)
                                 - row.Cost_of_Cultivation_per_Hectare
                   IN  /\ plan[i].year = i
                       /\ plan[i].season = (IF i \in {1, 3} THEN "Kharif" ELSE "Rabi")
                       /\ plan[i].estimated_profit >= 0
                       /\ plan[i].estimated_profit = (IF profit > 0 THEN profit ELSE 0)

\* a plan for a stored crop that is not the most profitable of its type, followed
\* by other crops
C6_Witness ==
    /\ RotationReturned
    /\ primary_crop = "maize"
    /\ Len(rotation_plan) = 3
    /\ rotation_plan[3].recommended_crop = "rice"
    /\ rotation_plan[2].recommended_crop # primary_crop
    /\ rotation_plan[2].estimated_profit > 0

StoreProfit(crop) == StoreRevenue(crop) - StoreCost(crop)

\* the type planned for a year: the entry of the sequence of the primary crop's type
TargetType(year) ==
    DictGet(rotation_sequences, economic_df[primary_crop].Crop_Type, DefaultSequence)[year]

\* C13: from year 2 on, the crop of a step is a candidate of the year's target
\* type that the store holds, no stored candidate of the type is more
\* profitable (yield*price*10 - cost), and no stored candidate earlier in the
\* list is as profitable.
C13_MostProfitableOfType ==
    (RotationReturned /\ primary_crop \in DOMAIN economic_df) =>
        \A year \in DOMAIN rotation_plan :
            year >= 2 =>
                LET candidates == crop_by_type[TargetType(year)]
                    chosen     == rotation_plan[year].recommended_crop
                IN  /\ chosen \in DOMAIN economic_df
                    /\ \E k \in DOMAIN candidates :
                         /\ candidates[k] = chosen
                         /\ \A j \in DOMAIN candidates :
                              candidates[j] \in DOMAIN economic_df =>
                                  /\ StoreProfit(candidates[j]) <= StoreProfit(chosen)
                                  /\ j < k => StoreProfit(candidates[j]) < StoreProfit(chosen)

\* a plan whose second year takes the last of three candidates and whose third
\* year takes the first of two
C13_Witness ==
    /\ RotationReturned
    /\ primary_crop = "rice"
    /\ Len(rotation_plan) = 3
    /\ rotation_plan[2].recommended_crop = crop_by_type["vegetable"][3]
    /\ rotation_plan[3].recommended_crop = crop_by_type["cereal"][1]
    /\ StoreProfit(crop_by_type["cereal"][2]) < StoreProfit(crop_by_type["cereal"][1])

-----------------------------------------------------------------------------
(* Properties of analyze_soil_treatment *)

SoilReturned == request = "analyze_soil_treatment" /\ pc = "return"

DirectivesFor(param) ==
    { i \in DOMAIN soil_treatments : soil_treatments[i].parameter = Upper(param) }

\* C3 (as claimed): for every known parameter given with a reading below its
\* minimum the call completes normally and returns exactly one directive for
\* that parameter, a "low" one.
C3_BelowMinimumOneLowDirective ==
    SoilReturned =>
        \A i \in DOMAIN soil_params :
            LET param == soil_params[i].param
                value == soil_params[i].value
            IN  (param \in DOMAIN optimal_ranges /\ value < optimal_ranges[param].min)
                    => /\ raised = NoError
                       /\ Cardinality(DirectivesFor(param)) = 1
                       /\ \A d \in DirectivesFor(param) :
                              /\ soil_treatments[d].current_value = value
                              /\ value < soil_treatments[d].optimal_range.min

AboveMaxReported(param) == param \in {"N", "P", "K", "ph"}

\* the parameters given out of range for which a directive is due, in input order
RECURSIVE DueDirectives(_)
DueDirectives(items) ==
    IF items = << >> THEN << >>
    ELSE LET param == Head(items).param
             value == Head(items).value
             due   == /\ param \in DOMAIN optimal_ranges
                      /\ \/ value < optimal_ranges[param].min
                         \/ value > optimal_ranges[param].max /\ AboveMaxReported(param)
         IN  (IF due THEN << Upper(param) >> ELSE << >>) \o DueDirectives(Tail(items))

\* C11 (as claimed): a known parameter read inside [min, max] gets no
\* directive; N, P, K or ph read above max gets exactly one directive, a "high"
\* one; humidity or temperature read above max gets none; a parameter without
\* a range (rainfall) gets none; and the directives come in input order.
C11_InRangeHighAndOrder ==
    SoilReturned =>
        /\ \A i \in DOMAIN soil_params :
             LET param == soil_params[i].param
                 value == soil_params[i].value
             IN  IF param \notin DOMAIN optimal_ranges
                 THEN DirectivesFor(param) = {}
                 ELSE LET optimal == optimal_ranges[param]
                      IN  /\ (optimal.min <= value /\ value <= optimal.max)
                                => DirectivesFor(param) = {}
                          /\ (value > optimal.max /\ AboveMaxReported(param))
                                => /\ Cardinality(DirectivesFor(param)) = 1
                                   /\ \A d \in DirectivesFor(param) :
                                          soil_treatments[d] = Treatment(param, value, "high")
                          /\ (value > optimal.max /\ ~AboveMaxReported(param))
                                => DirectivesFor(param) = {}
        /\ raised = NoError =>
             [d \in DOMAIN soil_treatments |-> soil_treatments[d].parameter]
                 = DueDirectives(soil_params)

-----------------------------------------------------------------------------
(* Properties of generate_crop_advisory *)

AdvisoryReturned == request = "generate_crop_advisory" /\ pc = "return"

\* the statistics of the forecast, computed from the raw entries
TempDays == Min2(3, Len(weather_forecast))

TempSum == SumSeq([i \in 1..TempDays |-> weather_forecast[i].temperature_max])

RainTotal ==
    SumSeq([i \in 1..Min2(7, Len(weather_forecast)) |-> weather_forecast[i].rainfall])

AvgTempAbove(x) == TempDays > 0 /\ TempSum > x * TempDays

AvgTempBelow(x) == TempDays > 0 /\ TempSum < x * TempDays

\* C7: the weather alert is the first match of heat (avg_temp_max > 35), cold
\* (avg_temp_max < 15), drainage (total_rainfall > 100), irrigation planning
\* (total_rainfall < 10), else none; so with avg_temp_max > 35 it is the heat
\* warning whatever the rainfall.
C7_WeatherAlertPriority ==
    AdvisoryReturned =>
        /\ AvgTempAbove(35) => crop_advisory.weather_alert = HeatAlert
        /\ (~AvgTempAbove(35) /\ AvgTempBelow(15))
               => crop_advisory.weather_alert = ColdAlert
        /\ (~AvgTempAbove(35) /\ ~AvgTempBelow(15) /\ RainTotal > 100)
               => crop_advisory.weather_alert = DrainageAlert
        /\ (~AvgTempAbove(35) /\ ~AvgTempBelow(15) /\ RainTotal <= 100 /\ RainTotal < 10)
               => crop_advisory.weather_alert = IrrigationAlert
        /\ (~AvgTempAbove(35) /\ ~AvgTempBelow(15) /\ RainTotal <= 100 /\ RainTotal >= 10)
               => crop_advisory.weather_alert = None

\* a hot forecast with heavy rain gets the heat warning
C7_Witness ==
    /\ AdvisoryReturned
    /\ AvgTempAbove(35)
    /\ RainTotal > 100
    /\ crop_advisory.weather_alert = HeatAlert

HumiditySum == SumSeq([i \in 1..TempDays |-> weather_forecast[i].humidity])

AvgHumidityAbove(x) == TempDays > 0 /\ HumiditySum > x * TempDays

AvgHumidityBelow(x) == TempDays > 0 /\ HumiditySum < x * TempDays

\* 20 <= avg_temp_max <= 30 and 20 <= total_rainfall <= 60
ExcellentConditions ==
    /\ TempDays > 0
    /\ 20 * TempDays <= TempSum /\ TempSum <= 30 * TempDays
    /\ 20 <= RainTotal /\ RainTotal <= 60

\* C15: planting_recommendation is "excellent" iff 20 <= avg_temp_max <= 30
\* and 20 <= total_rainfall <= 60, else drought-resistant iff avg_temp_max > 30,
\* else monitor-weather; irrigation_advice is "increase" iff total_rainfall <
\* 20, "reduce" iff total_rainfall > 80, else normal; pest_warning is fungal iff
\* avg_humidity > 70 and avg_temp_max > 25, else mite iff avg_humidity < 40,
\* else absent.
C15_AdvisoryRules ==
    AdvisoryReturned =>
        /\ crop_advisory.planting_recommendation =
               (IF ExcellentConditions THEN "Excellent conditions for planting"
                ELSE IF AvgTempAbove(30) THEN "Consider drought-resistant varieties"
                ELSE "Monitor weather before planting")
        /\ crop_advisory.irrigation_advice =
               (IF RainTotal < 20
                THEN "Increase irrigation frequency - weekly watering recommended"
                ELSE IF RainTotal > 80 THEN "Reduce irrigation - risk of waterlogging"
                ELSE "Normal irrigation schedule - bi-weekly watering")
        /\ crop_advisory.pest_warning =
               (IF AvgHumidityAbove(70) /\ AvgTempAbove(25)
                THEN "High risk of fungal diseases - apply preventive fungicides"
                ELSE IF AvgHumidityBelow(40)
                THEN "Watch for spider mites - monitor regularly"
                ELSE None)

\* a forecast on the ends of the planting ranges (average 30 degrees, 60 mm)
\* that is humid enough for the fungal warning
C15_Witness ==
    /\ AdvisoryReturned
    /\ TempDays = 3
    /\ TempSum = 30 * TempDays
    /\ RainTotal = 60
    /\ AvgHumidityAbove(70)
    /\ crop_advisory.planting_recommendation = "Excellent conditions for planting"
    /\ crop_advisory.irrigation_advice = "Normal irrigation schedule - bi-weekly watering"
    /\ crop_advisory.pest_warning # None

-----------------------------------------------------------------------------
(* Properties of the /api/recommend handler *)

FlowReturned == request = "/api/recommend" /\ pc = "return"

ShapeMismatch == model_loaded /\ Len(probabilities) # Len(label_classes)

\* C4 (as claimed): when the probability vector does not match the label set
\* the failure reaches the caller: no empty list is returned in its place and
\* no rotation plan is built from the default primary crop.
C4_ShapeMismatchPropagates ==
    (FlowReturned /\ ShapeMismatch) =>
        /\ status_code = 500
        /\ ~(ranking_failed /\ crop_recommendations = << >>)
        /\ rotation_plan = << >>

LowDirective(param, value) == Treatment(param, value, "low")

\* C10: for the example soil the handler returns exactly the four directives
\* low N, low P, low K and low (acidic) pH; and with budget 30000, when rice
\* (cost 32000) is the top agronomic pick, its entry is over budget by 2000 and
\* its estimated_profit is not available.
C10_EndToEndExample ==
    (FlowReturned /\ soil_params = ExampleSoil) =>
        /\ soil_treatments = << LowDirective("N", 200), LowDirective("P", 250),
                                LowDirective("K", 350), LowDirective("ph", 50) >>
        /\ (budget = 30000 /\ top_crops # << >> /\ top_crops[1] = "rice") =>
               \E i \in DOMAIN crop_recommendations :
                   LET r == crop_recommendations[i]
                   IN  /\ r.crop = "rice"
                       /\ r.estimated_cost = 32000
                       /\ r.status = [name |-> "Over Budget", over |-> 2000]
                       /\ r.estimated_profit = NotAvailable
                       /\ \A j \in DOMAIN crop_recommendations :
                              crop_recommendations[j].crop = "rice" => j = i

\* the example request with rice as the single most probable crop
C10_Witness ==
    /\ FlowReturned
    /\ soil_params = ExampleSoil
    /\ budget = 30000
    /\ Len(top_crops) = TopN
    /\ top_crops[1] = "rice"
    /\ top_probs[1] > top_probs[2]
    /\ Len(soil_treatments) = 4

-----------------------------------------------------------------------------
(* Properties of analyze_crop *)

AnalyzeReturned == request = "/api/analyze-crop" /\ pc = "return"

\* C14: a crop the reference store lacks degrades gracefully: the rotation
\* plan for it (and for the empty name) is empty, and analyze_crop answers
\* with the score computed from the soil readings instead of failing.
C14_UnknownCropDegrades ==
    /\ (RotationReturned /\ primary_crop \notin DOMAIN economic_df) =>
           rotation_plan = << >> /\ raised = NoError
    /\ (AnalyzeReturned /\ Lower(selected_crop) \notin DOMAIN economic_df) =>
           /\ raised = NoError
           /\ status_code = 200
           /\ selected_crop_data = NoCropData
           /\ analysis.suitability_score * Len(param_scores(soil_params))
                  = SumSeq(param_scores(soil_params)) * 100
           /\ analysis.suitability_score \in 5400..9100

\* an unknown crop analysed after a ranking that returned five entries, on
\* the example soil: sub-scores 50, 75, 75, 60, 90
C14_Witness ==
    /\ AnalyzeReturned
    /\ selected_crop = "wheat"
    /\ Len(crop_recommendations) = TopN
    /\ soil_params = ExampleSoil
    /\ analysis.suitability_score = 7000
    /\ analysis.is_suitable

\* the candidates that match the selected crop, letter case aside, and that
\* the store holds
MatchingCandidates ==
    { i \in DOMAIN top_crops : /\ Lower(top_crops[i]) = Lower(selected_crop)
                               /\ top_crops[i] \in DOMAIN economic_df }

FallbackApplies ==
    /\ analysis.suitability_score * 5 = SumSeq(param_scores(soil_params)) * 100
    /\ Len(param_scores(soil_params)) = 5

\* C17 (as claimed): a selected crop among the candidates the store holds
\* scores exactly its probability * 100; any other scores the mean of the five
\* sub-scores; is_suitable iff the score is at least 60.
C17_ScoreIsProbabilityTimes100 ==
    AnalyzeReturned =>
        /\ \A i \in MatchingCandidates :
               analysis.suitability_score * ProbSum = top_probs[i] * 10000
        /\ MatchingCandidates = {} => FallbackApplies
        /\ analysis.is_suitable <=> analysis.suitability_score >= 6000

\* C17 (amended): a selected crop among the candidates the store holds scores
\* its probability * 100 rounded to two decimals (the formatted
\* agronomic_score read back); any other scores the mean of the five
\* sub-scores; is_suitable iff the score is at least 60.
C17_ScoreIsRoundedPercentage ==
    AnalyzeReturned =>
        /\ \A i \in MatchingCandidates :
               LET exact == top_probs[i] * 10000
                   shown == analysis.suitability_score * ProbSum
               IN  2 * Abs(shown - exact) <= ProbSum
        /\ MatchingCandidates = {} => FallbackApplies
        /\ analysis.is_suitable <=> analysis.suitability_score >= 6000

\* a crop dearer than the lookup budget, found with a probability the two
\* decimals cannot hold exactly
C17_Witness ==
    /\ AnalyzeReturned
    /\ selected_crop = "apple"
    /\ StoreCost("apple") > LookupBudget
    /\ selected_crop_data # NoCropData
    /\ \E i \in MatchingCandidates :
           (top_probs[i] * 10000) % ProbSum # 0
    /\ ~analysis.is_suitable

-----------------------------------------------------------------------------
(* Properties of analyze_crop_detailed *)

DetailedReturned == request = "/api/analyze-crop-detailed" /\ pc = "return"

ClassifiedAs(param) ==
    { analysis.parameter_analysis[k].status :
          k \in { j \in DOMAIN analysis.parameter_analysis :
                      analysis.parameter_analysis[j].param = param } }

ImprovementsFor(param) ==
    { k \in DOMAIN improvement_plan.improvements :
          improvement_plan.improvements[k].parameter = Upper(param) }

\* C18: the improvement plan holds exactly one improvement for each present
\* parameter among N, P, K, ph, temperature, humidity, rainfall that is
\* classified non-optimal and none for one classified optimal; the priority
\* is High for status low or high and Medium for acidic or alkaline.
C18_ImprovementPlan ==
    DetailedReturned =>
        /\ \A i \in DOMAIN soil_params :
             LET param == soil_params[i].param
             IN  param \in DetailedParams =>
                     /\ Cardinality(ClassifiedAs(param)) = 1
                     /\ Cardinality(ImprovementsFor(param))
                            = (IF ClassifiedAs(param) = {"optimal"} THEN 0 ELSE 1)
        /\ \A k \in DOMAIN improvement_plan.improvements :
             LET imp == improvement_plan.improvements[k]
             IN  /\ \E i \in DOMAIN soil_params :
                        /\ imp.parameter = Upper(soil_params[i].param)
                        /\ ClassifiedAs(soil_params[i].param) = {imp.status}
                 /\ imp.status \in {"low", "high"} => imp.priority = "High"
                 /\ imp.status \in {"acidic", "alkaline"} => imp.priority = "Medium"

\* the example soil: six of seven parameters off, pH among them
C18_Witness ==
    /\ DetailedReturned
    /\ soil_params = ExampleSoil
    /\ Len(improvement_plan.improvements) = 6
    /\ \E k \in DOMAIN improvement_plan.improvements :
           improvement_plan.improvements[k].priority = "Medium"
    /\ ClassifiedAs("temperature") = {"optimal"}

\* C19 (as claimed): when improvements exist the breakdown is one remediation
\* line per improvement of the plan, in the plan's order, each a fixed unit
\* cost times the farm size, followed by seed, labor and equipment.
C19_RemediationLinePerImprovement ==
    (DetailedReturned /\ improvement_plan.improvements # << >>) =>
        LET improvements == improvement_plan.improvements
            breakdown    == cost_analysis.breakdown
            n            == Len(improvements)
        IN  /\ Len(breakdown) = n + 3
            /\ \A k \in 1..n :
                   k \in DOMAIN breakdown =>
                       \E unit \in {800, 400} : breakdown[k].cost = unit * farm_size
            /\ [k \in 1..3 |-> breakdown[Len(breakdown) - 3 + k].item]
                   = << "Seeds", "Labor", "Equipment/Tools" >>

BreakdownCosts == [k \in DOMAIN cost_analysis.breakdown |-> cost_analysis.breakdown[k].cost]

\* C20: total_cost is the sum of the costs of the breakdown; cost_per_hectare
\* is total_cost / farm_size for a positive farm size and 0 otherwise.
C20_TotalAndPerHectare ==
    DetailedReturned =>
        /\ raised = NoError
        /\ cost_analysis.total_cost = SumSeq(BreakdownCosts)
        /\ farm_size > 0 =>
               cost_analysis.cost_per_hectare.num * farm_size
                   = cost_analysis.total_cost * 10 * cost_analysis.cost_per_hectare.den
        /\ farm_size <= 0 => cost_analysis.cost_per_hectare = RatZero

\* a negative farm size with remediation lines: a negative total, 0 per hectare
C20_Witness ==
    /\ DetailedReturned
    /\ farm_size < 0
    /\ Len(cost_analysis.breakdown) > 3
    /\ cost_analysis.total_cost < 0
    /\ cost_analysis.cost_per_hectare = RatZero
\* what the handler charges for a farm whose soil needs nothing
MaintenanceTotal(farm) ==
    SumSeq([k \in DOMAIN maintenance_costs(farm) |-> maintenance_costs(farm)[k].cost])

\* C21 (as claimed): for a positive farm size the total reported when nothing
\* needs improvement is lower than the total reported with at least one
\* improvement, and the cost message is there exactly when nothing needs
\* improvement.
C21_MaintenanceIsReduced ==
    (DetailedReturned /\ farm_size > 0) =>
        /\ cost_analysis.message = (improvement_plan.improvements = << >>)
        /\ improvement_plan.improvements = << >> =>
               cost_analysis.total_cost = MaintenanceTotal(farm_size)
        /\ improvement_plan.improvements # << >> =>
               cost_analysis.total_cost > MaintenanceTotal(farm_size)

-----------------------------------------------------------------------------
(* Properties of inputs that lack fields *)

\* the columns of the classifier's row that the soil dict does not give
MissingColumns ==
    { i \in DOMAIN expected_columns : expected_columns[i] \notin SoilParamsOf(soil_params) }

\* C22 (as claimed): a missing field is skipped and never replaced by zero:
\* the row get_crop_recommendations feeds the classifier holds no 0 for a soil
\* feature the input lacks, analyze_soil_treatment returns no directive for a
\* parameter the input lacks, and generate_crop_advisory completes on a
\* forecast whose entries omit humidity.
C22_MissingFieldsNeverZero ==
    /\ RankingReturned =>
           \A i \in MissingColumns : i \in DOMAIN input_df => input_df[i] # 0
    /\ SoilReturned =>
           \A param \in SoilParamNames \ SoilParamsOf(soil_params) :
               DirectivesFor(param) = {}
    /\ AdvisoryReturned => raised = NoError

-----------------------------------------------------------------------------
(* Properties of the weather service *)

FailedCalls == { i \in DOMAIN weather_log : weather_log[i].failed }

\* two calls whose coordinates agree to two decimals
SameRoundedLocation(a, b) ==
    /\ Round2(a.latitude) = Round2(b.latitude)
    /\ Round2(a.longitude) = Round2(b.longitude)

\* C23 (as claimed): a failing fetch is replaced by a fallback of the length
\* asked for that is seeded by the rounded location: two failing calls for the
\* same rounded location and length return the same temperature, rainfall and
\* humidity values, and two for different locations return different ones.
C23_FallbackSeededByLocation ==
    \A i, j \in FailedCalls :
        LET a == weather_log[i]
            b == weather_log[j]
        IN  /\ Len(a.forecast) = a.days
            /\ a.days = b.days =>
                   (SameRoundedLocation(a, b) <=> a.forecast = b.forecast)

-----------------------------------------------------------------------------
(* Properties of the fetches of /api/recommend *)

\* an engine step has run: the handler returned or some engine result is there
EngineStarted ==
    \/ pc = "return"
    \/ input_df # << >>
    \/ ranking_failed
    \/ soil_treatments # << >>
    \/ rotation_plan # << >>
    \/ crop_advisory # NoAdvisory

\* C28: in /api/recommend, whatever the order in which the three fetches
\* complete and whichever of them fail, no engine step (ranking, treatment,
\* rotation, advisory) has run before all three fetches are done; a fetch that
\* failed is done and holds its fallback value, a fetch that did not fail
\* holds what it fetched when the handler returns, and the request of the
\* example soil is answered with status 200 all the same.
C28_EngineAfterAllFetches ==
    request = "/api/recommend" =>
        /\ EngineStarted => \A t \in Tasks : fetches[t] = "done"
        /\ "weather" \in fetch_failed =>
               /\ fetches["weather"] = "done"
               /\ Len(weather_forecast) = 7
               /\ \A i \in 1..7 :
                      /\ weather_forecast[i].temperature_max = 28 + ((i - 1) % 3)
                      /\ weather_forecast[i].rainfall = (IF (i - 1) % 3 = 0 THEN 2 ELSE 0)
                      /\ weather_forecast[i].humidity = 65
        /\ "soil" \in fetch_failed =>
               /\ fetches["soil"] = "done"
               /\ soil_data.origin = "_get_location_based_fallback"
        /\ "location" \in fetch_failed =>
               /\ fetches["location"] = "done"
               /\ location_info.city = "Unknown City"
               /\ location_info.display_name[1] = "Location"
        /\ (pc = "return" /\ "soil" \notin fetch_failed) =>
               soil_data.origin = "SoilGrids"
        /\ (pc = "return" /\ "location" \notin fetch_failed) =>
               location_info.city \in { "Nagpur", "Ramtek" }
        /\ (pc = "return" /\ "weather" \notin fetch_failed) =>
               /\ Len(weather_forecast) = 7
               /\ weather_forecast[1].humidity \in { 70, 80 }
        /\ pc = "return" => (raised = NoError /\ status_code = 200)

\* weather and geolocation failed, the soil fetch succeeded, and the advisory
\* was built from the fallback forecast (6 mm of rain in 7 days)
C28_Witness ==
    /\ request = "/api/recommend"
    /\ pc = "return"
    /\ fetch_failed = { "weather", "location" }
    /\ soil_data.origin = "SoilGrids"
    /\ status_code = 200
    /\ crop_advisory.weather_alert = IrrigationAlert
    /\ rotation_plan # << >>

-----------------------------------------------------------------------------
(* Properties of the Economic Reference Store across requests *)

\* C24: whatever engine operations the requests before have run, and in
\* whatever order, the Economic Reference Store is the one loaded at
\* initialization, and the ranking and the rotation plan a request gets are
\* those the freshly loaded store gives for its arguments.
C24_StoreReadOnly ==
    /\ economic_df = create_enhanced_economic_dataset
    /\ RankingReturned =>
           \E top_indices \in TopIndices(probabilities) :
               crop_recommendations =
                   get_crop_recommendations(create_enhanced_economic_dataset,
                       model_loaded, label_classes, probabilities, top_indices,
                       soil_params, budget).returned
    /\ RotationReturned =>
           rotation_plan = generate_rotation_plan(create_enhanced_economic_dataset,
                                                  primary_crop, location_climate)

\* the last request of a session got a ranking with rice in it
C24_Witness ==
    /\ served = MaxRequests
    /\ RankingReturned
    /\ \E i \in DOMAIN crop_recommendations : crop_recommendations[i].crop = "rice"
    /\ economic_df["rice"].Cost_of_Cultivation_per_Hectare = 32000

-----------------------------------------------------------------------------
(* Properties of the optimal ranges *)

\* the reading lies in the interval analyze_soil_treatment takes as in range
InTreatmentRange(param, value) ==
    optimal_ranges[param].min <= value /\ value <= optimal_ranges[param].max

\* C25 (as claimed): one and the same optimal range serves the treatment
\* rules and the suitability analysis: analyze_crop and analyze_crop_detailed
\* classify a reading of N, P, K, ph, humidity or temperature as optimal
\* exactly when it lies in the interval analyze_soil_treatment takes as in
\* range for that parameter.
C25_OneRangePerParameter ==
    (AnalyzeReturned \/ DetailedReturned) =>
        \A k \in DOMAIN analysis.parameter_analysis :
            LET a == analysis.parameter_analysis[k]
            IN  a.param \in DOMAIN optimal_ranges =>
                    (a.status = "optimal" <=> InTreatmentRange(a.param, a.current))

-----------------------------------------------------------------------------
(* Properties of the primary crop of /api/recommend *)

\* the handler got as far as the rotation planner
PlannerCalled == FlowReturned /\ raised = NoError

\* C26: the primary crop handed to the rotation planner is the crop of the
\* first entry of the ranked list: when some candidate is Recommended, a
\* Recommended one of the highest profit_margin; when the list holds only
\* over-budget candidates, one of the highest probability; 'rice' by default
\* only when the list is empty.  The plan built starts with that crop.
C26_PrimaryIsTopRanked ==
    PlannerCalled =>
        /\ crop_recommendations # << >> => primary_crop = crop_recommendations[1].crop
        /\ crop_recommendations = << >> => primary_crop = "rice"
        /\ (\E j \in DOMAIN recommendations : IsRecommended(recommendations[j])) =>
               \E i \in DOMAIN recommendations :
                   /\ recommendations[i].crop = primary_crop
                   /\ IsRecommended(recommendations[i])
                   /\ \A j \in DOMAIN recommendations :
                          IsRecommended(recommendations[j]) =>
                              ~RatLess(recommendations[i].profit_margin,
                                       recommendations[j].profit_margin)
        /\ (recommendations # << >>
              /\ \A j \in DOMAIN recommendations : ~IsRecommended(recommendations[j])) =>
               \E i \in DOMAIN top_crops :
                   /\ top_crops[i] = primary_crop
                   /\ \A j \in DOMAIN top_crops : top_probs[j] <= top_probs[i]
        /\ rotation_plan # << >> => rotation_plan[1].recommended_crop = primary_crop

\* the most probable crop is over budget and a less probable one is
\* Recommended: the planner gets the Recommended one
C26_Witness ==
    /\ PlannerCalled
    /\ top_crops # << >>
    /\ primary_crop # top_crops[1]
    /\ \A i \in DOMAIN top_probs : i > 1 => top_probs[i] < top_probs[1]
    /\ IsRecommended(crop_recommendations[1])
    /\ rotation_plan # << >>

-----------------------------------------------------------------------------
(* Properties of the forecast windows *)

\* the forecast cut to the longest window, with the temperature and humidity
\* of the entries behind the third blanked
Masked(forecast) ==
    [ i \in 1..Min2(7, Len(forecast)) |->
        IF i <= 3 THEN forecast[i]
        ELSE [ temperature_max |-> 0, rainfall |-> forecast[i].rainfall, humidity |-> 0 ] ]

\* C27: the advisory is built from avg_temp_max and avg_humidity over the
\* first min(3, len) entries and total_rainfall over the first min(7, len):
\* the heat alert, the irrigation advice and the mite warning each follow
\* their statistic over its window, the entries and fields outside the
\* windows change nothing, and every forecast, also one of fewer than 3 or 7
\* entries or of none, yields an advisory without an exception.
C27_AdvisoryWindows ==
    AdvisoryReturned =>
        /\ raised = NoError
        /\ crop_advisory.harvest_timing # None
        /\ crop_advisory.weather_alert = HeatAlert <=> AvgTempAbove(35)
        /\ crop_advisory.irrigation_advice =
               (IF RainTotal < 20
                THEN "Increase irrigation frequency - weekly watering recommended"
                ELSE IF RainTotal > 80 THEN "Reduce irrigation - risk of waterlogging"
                ELSE "Normal irrigation schedule - bi-weekly watering")
        /\ crop_advisory.pest_warning = "Watch for spider mites - monitor regularly"
               <=> AvgHumidityBelow(40)
        /\ crop_advisory = generate_crop_advisory(Masked(weather_forecast))

\* eight entries: three cold dry days first, 15 mm within the first seven and
\* a hot wet eighth day that would lift the rainfall to 30 mm
C27_Witness ==
    /\ AdvisoryReturned
    /\ Len(weather_forecast) = 8
    /\ RainTotal = 15
    /\ weather_forecast[8].rainfall = 15
    /\ weather_forecast[4].temperature_max = 40
    /\ crop_advisory.weather_alert = ColdAlert
    /\ crop_advisory.irrigation_advice =
           "Increase irrigation frequency - weekly watering recommended"

-----------------------------------------------------------------------------
(* Properties relating the suitability verdict to the improvement plan *)

\* C29 (as claimed): in the reply of analyze_crop_detailed needs_treatment is
\* the negation of is_suitable and agrees with the improvement plan: a reply
\* with needs_treatment false lists no improvement, and a reply that lists an
\* improvement has needs_treatment true.
C29_TreatmentMatchesPlan ==
    DetailedReturned =>
        /\ needs_treatment = ~analysis.is_suitable
        /\ ~needs_treatment => improvement_plan.improvements = << >>
        /\ improvement_plan.improvements # << >> => needs_treatment

-----------------------------------------------------------------------------
(* Properties relating rotation steps to the store *)

\* C30 (as claimed): in every step of a rotation plan crop_type is the
\* Crop_Type the store records for the step's recommended_crop, and benefits
\* is the benefit list of that type.
C30_StepTypeFromStore ==
    RotationReturned =>
        \A i \in DOMAIN rotation_plan :
            LET step == rotation_plan[i]
            IN  /\ step.recommended_crop \in DOMAIN economic_df
                /\ step.crop_type = economic_df[step.recommended_crop].Crop_Type
                /\ step.benefits = benefits_map[economic_df[step.recommended_crop].Crop_Type]

=============================================================================
